---------------------------- MODULE Spec2Model ----------------------------
(***************************************************************************)
(* Model of the NBT decoder of src/nbt-parser.js (class NBTParser).        *)
(*                                                                         *)
(* Values.  A decoded JavaScript value is the record                       *)
(*     [j, n, s, c]                                                        *)
(* where j names the JavaScript shape:                                     *)
(*   "int"   a Number that is an integer of at most 32 bits, n its value   *)
(*   "wide"  a Number produced by readLong, s = <<t, a, b, c>> its value   *)
(*           t*2^48 + a*2^32 + b*2^16 + c with a, b, c in 0..65535         *)
(*   "f32"   a Number produced by readFloat, s = the 4 bytes of its bits   *)
(*   "f64"   a Number produced by readDouble, s = the 8 bytes of its bits  *)
(*   "str"   a String, s = its code points                                 *)
(*   "arr"   an Array, c = its elements (entries with name <<>>)           *)
(*   "obj"   an Object, c = its own properties in property order           *)
(* TLC's integers are 32 bits wide, hence the 16-bit limbs of "wide".      *)
(***************************************************************************)
EXTENDS Integers, Sequences, FiniteSets, TLC

VARIABLES
    data,             \* this.data: the bytes being decoded
    offset,           \* this.offset
    currentDepth,     \* this.currentDepth
    operationCount,   \* this.operationCount
    progressCallback, \* this.progressCallback (TRUE when a sink was given)
    totalBytes,       \* this.totalBytes
    progress,         \* percentages handed to the progress sink so far
    stack,            \* pending async calls, innermost last
    ret,              \* value handed from a finished call to its caller
    pc,               \* "idle", "running", "returned", "failed"
    result,           \* outcome of parse
    buffer,           \* the argument of parse
    oob,              \* history: some read used an index >= data.length
    lastLen,          \* history: the last length field that was read
    inflateCalls,     \* history: number of calls of pako.inflate
    inflated,         \* history: what pako.inflate answered in this call
    schematic,        \* the call of parseSchematic and its outcome
    other,            \* a second call in progress on the same instance
    calls,            \* history: an earlier call, kept to compare with
    instance          \* history: "fresh" until the parser served a call

vars == <<data, offset, currentDepth, operationCount, progressCallback,
          totalBytes, progress, stack, ret, pc, result, buffer, oob, lastLen,
          inflateCalls, inflated, schematic, other, calls, instance>>

\* what the decode engine never writes
callers == <<inflated, schematic, other, calls, instance>>

-----------------------------------------------------------------------------
(* Program constants *)

maxDepth == 100

yieldThreshold == 1000

ByteArrayCeiling == 52428800

-----------------------------------------------------------------------------
(* Values *)

NoVal == [j |-> "none", n |-> 0, s |-> <<>>, c |-> <<>>]

IntVal(n) == [j |-> "int", n |-> n, s |-> <<>>, c |-> <<>>]

SeqVal(j, s) == [j |-> j, n |-> 0, s |-> s, c |-> <<>>]

BoxVal(j, c) == [j |-> j, n |-> 0, s |-> <<>>, c |-> c]

Entry(name, val) == [name |-> name, val |-> val]

\* outcome of one reader: the value, the offset it leaves, the error it
\* throws ("" when it returns), whether it used an index past the end
Got(v, off, ob) == [v |-> v, off |-> off, err |-> "", oob |-> ob]

Throw(kind, off, ob) == [v |-> NoVal, off |-> off, err |-> kind, oob |-> ob]

\* data[i] for a 0-based index i inside a bit operation: an index past the
\* end gives undefined, which << and | coerce to 0
At(d, i) == IF i < Len(d) THEN d[i + 1] ELSE 0

Slice(d, from, to) ==
    LET f == IF from < Len(d) THEN from ELSE Len(d)
        t == IF to < Len(d) THEN to ELSE Len(d)
    IN  IF t <= f THEN <<>> ELSE SubSeq(d, f + 1, t)

-----------------------------------------------------------------------------
(* Fixed-width readers *)

readByte(d, o) ==
    IF o >= Len(d)
    THEN Throw("UnexpectedEndOfData", o, FALSE)
    ELSE Got(IntVal(d[o + 1]), o + 1, FALSE)

readShort(d, o) ==
    Got(IntVal(At(d, o) * 256 + At(d, o + 1)), o + 2, o + 1 >= Len(d))

\* (b0 << 24) | (b1 << 16) | (b2 << 8) | b3 as a 32-bit signed integer
ToInt32(b0, b1, b2, b3) ==
    (IF b0 >= 128 THEN b0 - 256 ELSE b0) * 16777216
        + b1 * 65536 + b2 * 256 + b3

readInt(d, o) ==
    Got(IntVal(ToInt32(At(d, o), At(d, o + 1), At(d, o + 2), At(d, o + 3))),
        o + 4, o + 3 >= Len(d))

\* high * 2^32 + low, exactly, in limbs
Limbs(high, low) ==
    LET hh == high \div 65536
        hl == high % 65536
        lh == low \div 65536
        ll == low % 65536
        b  == lh % 65536
        c1 == lh \div 65536
        a  == (hl + c1) % 65536
        c2 == (hl + c1) \div 65536
    IN  <<hh + c2, a, b, ll>>

NegLimbs(l) ==
    LET c  == (0 - l[4]) % 65536
        k1 == (0 - l[4]) \div 65536
        b  == (k1 - l[3]) % 65536
        k2 == (k1 - l[3]) \div 65536
        a  == (k2 - l[2]) % 65536
        k3 == (k2 - l[2]) \div 65536
    IN  <<k3 - l[1], a, b, c>>

RECURSIVE BitLen(_)
BitLen(n) == IF n = 0 THEN 0 ELSE 1 + BitLen(n \div 2)

RECURSIVE Pow2(_)
Pow2(k) == IF k = 0 THEN 1 ELSE 2 * Pow2(k - 1)

\* a non-negative limb value rounded to the nearest double, ties to even
RoundMagnitude(m) ==
    IF m[1] < 32 THEN m
    ELSE LET u    == Pow2(BitLen(m[1]) - 5)
             r    == m[4] % u
             q    == m[4] - r
             up   == \/ 2 * r > u
                     \/ 2 * r = u /\ (q \div u) % 2 = 1
             c    == IF up THEN q + u ELSE q
             b    == m[3] + c \div 65536
             a    == m[2] + b \div 65536
         IN  <<m[1] + a \div 65536, a % 65536, b % 65536, c % 65536>>

\* the Number that the double addition high * 0x100000000 + low yields
ToDouble(l) ==
    IF l[1] < 0 THEN NegLimbs(RoundMagnitude(NegLimbs(l)))
    ELSE RoundMagnitude(l)

readLong(d, o) ==
    LET high == readInt(d, o)
        low  == readInt(d, o + 4)
    IN  Got(SeqVal("wide", ToDouble(Limbs(high.v.n, low.v.n))),
            o + 8, high.oob \/ low.oob)

readFloat(d, o) ==
    Got(SeqVal("f32", [i \in 1..4 |-> At(d, o + i - 1)]),
        o + 4, o + 3 >= Len(d))

readDouble(d, o) ==
    Got(SeqVal("f64", [i \in 1..8 |-> At(d, o + i - 1)]),
        o + 8, o + 7 >= Len(d))

-----------------------------------------------------------------------------
(* Strings *)

\* new TextDecoder("utf-8").decode(bytes), not fatal: the decoder of the
\* Encoding Standard; need = continuation bytes still expected, lo..hi =
\* the range the next continuation byte must lie in
RECURSIVE Utf8Decode(_, _, _, _, _, _)
Utf8Decode(bs, i, cp, need, lo, hi) ==
    IF i > Len(bs) THEN (IF need # 0 THEN <<65533>> ELSE <<>>)
    ELSE LET b == bs[i] IN
      IF need = 0 THEN
        IF b <= 127 THEN <<b>> \o Utf8Decode(bs, i + 1, 0, 0, 128, 191)
        ELSE IF b >= 194 /\ b <= 223
          THEN Utf8Decode(bs, i + 1, b - 192, 1, 128, 191)
        ELSE IF b >= 224 /\ b <= 239
          THEN Utf8Decode(bs, i + 1, b - 224, 2,
                          IF b = 224 THEN 160 ELSE 128,
                          IF b = 237 THEN 159 ELSE 191)
        ELSE IF b >= 240 /\ b <= 244
          THEN Utf8Decode(bs, i + 1, b - 240, 3,
                          IF b = 240 THEN 144 ELSE 128,
                          IF b = 244 THEN 143 ELSE 191)
        ELSE <<65533>> \o Utf8Decode(bs, i + 1, 0, 0, 128, 191)
      ELSE IF b < lo \/ b > hi
        THEN <<65533>> \o Utf8Decode(bs, i, 0, 0, 128, 191)
      ELSE IF need = 1
        THEN <<cp * 64 + (b - 128)>> \o Utf8Decode(bs, i + 1, 0, 0, 128, 191)
      ELSE Utf8Decode(bs, i + 1, cp * 64 + (b - 128), need - 1, 128, 191)

\* the decoder drops a leading byte order mark (ignoreBOM is false)
TextDecode(bs) ==
    LET cps == Utf8Decode(bs, 1, 0, 0, 128, 191)
    IN  IF Len(cps) > 0 /\ cps[1] = 65279 THEN Tail(cps) ELSE cps

readString(d, o) ==
    LET length == readShort(d, o).v.n
        bytes  == Slice(d, o + 2, o + 2 + length)
    IN  Got(SeqVal("str", TextDecode(bytes)), o + 2 + length,
            readShort(d, o).oob)

-----------------------------------------------------------------------------
(* Arrays *)

\* the readers below loop `length` times; a loop longer than MaxElems is
\* not unrolled and is reported as the host running out of resources
MaxElems == 8

RECURSIVE ReadInts(_, _, _)
ReadInts(d, o, n) ==
    IF n = 0 THEN <<>>
    ELSE <<Entry(<<>>, readInt(d, o).v)>> \o ReadInts(d, o + 4, n - 1)

RECURSIVE ReadLongs(_, _, _)
ReadLongs(d, o, n) ==
    IF n = 0 THEN <<>>
    ELSE <<Entry(<<>>, readLong(d, o).v)>> \o ReadLongs(d, o + 8, n - 1)

\* readByteArrayAsync with the bounds check moved before the ceiling check
readByteArrayAsync_BoundsFirst(d, o) ==
    LET length == readInt(d, o).v.n
        ob     == readInt(d, o).oob
        off    == o + 4
    IN  IF length < 0 THEN Throw("InvalidLength", off, ob)
        ELSE IF length > Len(d) - off
          THEN Throw("UnexpectedEndOfData", off, ob)
        ELSE IF length > ByteArrayCeiling THEN Throw("InvalidLength", off, ob)
        ELSE Got(BoxVal("arr", [i \in 1..length |->
                                  Entry(<<>>, IntVal(d[off + i]))]),
                 off + length, ob)

readByteArrayAsync(d, o) ==
    LET length == readInt(d, o).v.n
        ob     == readInt(d, o).oob
        off    == o + 4
    IN  IF length < 0 THEN Throw("InvalidLength", off, ob)
        ELSE IF length > ByteArrayCeiling THEN Throw("InvalidLength", off, ob)
        ELSE IF off + length > Len(d)
          THEN Throw("UnexpectedEndOfData", off, ob)
        ELSE Got(BoxVal("arr", [i \in 1..length |->
                                  Entry(<<>>, IntVal(d[off + i]))]),
                 off + length, ob)

readIntArrayAsync(d, o) ==
    LET length == readInt(d, o).v.n
        ob     == readInt(d, o).oob
        off    == o + 4
    IN  IF length < 0 THEN Throw("InvalidLength", off, ob)
        ELSE IF length > MaxElems THEN Throw("HostLimit", off, ob)
        ELSE Got(BoxVal("arr", ReadInts(d, off, length)), off + 4 * length,
                 ob \/ off + 4 * length > Len(d))

readLongArrayAsync(d, o) ==
    LET length == readInt(d, o).v.n
        ob     == readInt(d, o).oob
        off    == o + 4
    IN  IF length < 0 THEN Throw("InvalidLength", off, ob)
        ELSE IF length > MaxElems THEN Throw("HostLimit", off, ob)
        ELSE Got(BoxVal("arr", ReadLongs(d, off, length)), off + 8 * length,
                 ob \/ off + 8 * length > Len(d))

-----------------------------------------------------------------------------
(* Payload dispatch *)

\* readPayload: the synchronous dispatch used for list elements
readPayload(type, d, o) ==
    CASE type = 1 -> readByte(d, o)
      [] type = 2 -> readShort(d, o)
      [] type = 3 -> readInt(d, o)
      [] type = 4 -> readLong(d, o)
      [] type = 5 -> readFloat(d, o)
      [] type = 6 -> readDouble(d, o)
      [] type = 8 -> readString(d, o)
      [] OTHER    -> Throw("SyncUnsupported", o, FALSE)

\* the cases of readPayloadAsync that finish without a nested container
IsContainer(type) == type = 9 \/ type = 10

\* readPayloadAsync whose switch falls through to the byte reader
readPayloadAsync_NoDefault(type, d, o) ==
    CASE type = 2  -> readShort(d, o)
      [] type = 3  -> readInt(d, o)
      [] type = 4  -> readLong(d, o)
      [] type = 5  -> readFloat(d, o)
      [] type = 6  -> readDouble(d, o)
      [] type = 7  -> readByteArrayAsync(d, o)
      [] type = 8  -> readString(d, o)
      [] type = 11 -> readIntArrayAsync(d, o)
      [] type = 12 -> readLongArrayAsync(d, o)
      [] OTHER     -> readByte(d, o)

readPayloadAsync(type, d, o) ==
    CASE type = 1  -> readByte(d, o)
      [] type = 2  -> readShort(d, o)
      [] type = 3  -> readInt(d, o)
      [] type = 4  -> readLong(d, o)
      [] type = 5  -> readFloat(d, o)
      [] type = 6  -> readDouble(d, o)
      [] type = 7  -> readByteArrayAsync(d, o)
      [] type = 8  -> readString(d, o)
      [] type = 11 -> readIntArrayAsync(d, o)
      [] type = 12 -> readLongArrayAsync(d, o)
      [] OTHER     -> Throw("UnknownTagType", o, FALSE)

-----------------------------------------------------------------------------
(* Objects: compound[tag.name] = tag.value on an object literal *)

Digit(ch) == ch >= 48 /\ ch <= 57

RECURSIVE LexLess(_, _)
LexLess(a, b) ==
    /\ Len(a) > 0
    /\ \/ a[1] < b[1]
       \/ a[1] = b[1] /\ LexLess(Tail(a), Tail(b))

\* the decimal string of an integer below 2^32 - 1, written canonically:
\* such property keys are array indices
MaxIndexDigits == <<52, 50, 57, 52, 57, 54, 55, 50, 57, 53>>

IsArrayIndex(name) ==
    /\ Len(name) >= 1
    /\ \A i \in 1..Len(name) : Digit(name[i])
    /\ name[1] # 48 \/ Len(name) = 1
    /\ \/ Len(name) < 10
       \/ Len(name) = 10 /\ LexLess(name, MaxIndexDigits)

IndexLess(a, b) ==
    Len(a) < Len(b) \/ (Len(a) = Len(b) /\ LexLess(a, b))

ProtoName == <<95, 95, 112, 114, 111, 116, 111, 95, 95>>

HasKey(c, name) == \E i \in 1..Len(c) : c[i].name = name

\* number of own keys that come before a new key `name` in property order
KeysBefore(c, name) ==
    IF IsArrayIndex(name)
    THEN Cardinality({i \in 1..Len(c) :
            IsArrayIndex(c[i].name) /\ IndexLess(c[i].name, name)})
    ELSE Len(c)

\* own properties after compound[name] = val; "__proto__" names the
\* prototype accessor, so the assignment creates no own property
SetProperty(c, name, val) ==
    IF name = ProtoName THEN c
    ELSE IF HasKey(c, name)
      THEN [i \in 1..Len(c) |->
              IF c[i].name = name THEN Entry(name, val) ELSE c[i]]
    ELSE LET k == KeysBefore(c, name)
         IN  SubSeq(c, 1, k) \o <<Entry(name, val)>> \o SubSeq(c, k + 1, Len(c))

-----------------------------------------------------------------------------
(* Decompression gate *)

\* isGzipped that looks at the first magic byte only
isGzipped_FirstByte(d) == Len(d) >= 2 /\ d[1] = 31

isGzipped(d) == Len(d) >= 2 /\ d[1] = 31 /\ d[2] = 139

-----------------------------------------------------------------------------
(* The decode engine.  A frame of `stack` is one pending async call:       *)
(*   f = "tag"       readTagAsync      st "start" (called), "wait" (payload)*)
(*   f = "compound"  readCompoundAsync st "start", "loop"                   *)
(*   f = "list"      readListAsync     st "start", "loop"                   *)

Frame(f, st) ==
    [f |-> f, st |-> st, type |-> 0, name |-> <<>>, acc |-> <<>>,
     count |-> 0, length |-> 0]

\* what a finished call hands to its caller: nothing yet ("none"), the null
\* of TAG_End ("end"), a {type, name, value} tag ("tag"), a payload ("val")
Ret(k, type, name, val) == [k |-> k, type |-> type, name |-> name, val |-> val]

NoRet == Ret("none", 0, <<>>, NoVal)

NoResult == [status |-> "none", err |-> "", root |-> NoRet]

\* a length field: the tag type it belongs to, its value, the offset after
\* it, and for a List the element type
LenField(kind, len, off, et) == [kind |-> kind, len |-> len, off |-> off, et |-> et]

NoLen == LenField(0, 0, 0, 0)

Top == stack[Len(stack)]

Pop(st) == SubSeq(st, 1, Len(st) - 1)

SetTop(st, fr) == [st EXCEPT ![Len(st)] = fr]

Running(f, st) ==
    /\ pc = "running"
    /\ Len(stack) > 0
    /\ Top.f = f
    /\ Top.st = st

\* a progress percentage num / den
Pct(num, den) == [num |-> num, den |-> den]

\* updateProgress: the sink is called only when one was supplied
updateProgress(log, cb, p) == IF cb THEN Append(log, p) ELSE log

\* the percentage without Math.min(40, ...)
LoopPct_NoCap(off, d) == Pct(30 * Len(d) + 40 * off, Len(d))

\* 30 + Math.min(40, (offset / data.length) * 40)
LoopPct(off, d) ==
    Pct(30 * Len(d) + (IF off > Len(d) THEN 40 * Len(d) ELSE 40 * off), Len(d))

\* a catch block that swallows the error and hands back what was decoded
Fail_Returns(kind, off, ob) ==
    /\ pc' = "returned"
    /\ result' = [status |-> "ok", err |-> "", root |-> ret]
    /\ offset' = off
    /\ oob' = (oob \/ ob)
    /\ stack' = <<>>
    /\ ret' = NoRet

\* a thrown error leaves parse through its catch block: offset, data and
\* currentDepth stay as they were when it was thrown
Fail(kind, off, ob) ==
    /\ pc' = "failed"
    /\ result' = [status |-> "error", err |-> kind, root |-> NoRet]
    /\ offset' = off
    /\ oob' = (oob \/ ob)
    /\ stack' = <<>>
    /\ ret' = NoRet

-----------------------------------------------------------------------------
(* The schematic extractor: CreateSchematicParser.parseSchematic.  Strings  *)
(* are sequences of code points, as in the decoded values.                  *)

\* "palette"
PaletteKey ==
    <<112, 97, 108, 101, 116, 116, 101>>

\* "blocks"
BlocksKey ==
    <<98, 108, 111, 99, 107, 115>>

\* "size"
SizeKey ==
    <<115, 105, 122, 101>>

\* "Name"
NameKey ==
    <<78, 97, 109, 101>>

\* "state"
StateKey ==
    <<115, 116, 97, 116, 101>>

\* "DataVersion"
DataVersionKey ==
    <<68, 97, 116, 97, 86, 101, 114, 115, 105, 111, 110>>

\* "Railways_DataVersion"
RailwaysKey ==
    <<82, 97, 105, 108, 119, 97, 121, 115, 95, 68, 97, 116, 97, 86, 101,
      114, 115, 105, 111, 110>>

\* "length"
LengthKey ==
    <<108, 101, 110, 103, 116, 104>>

\* "minecraft"
Minecraft ==
    <<109, 105, 110, 101, 99, 114, 97, 102, 116>>

\* "create"
NsCreate ==
    <<99, 114, 101, 97, 116, 101>>

\* "railways"
NsRailways ==
    <<114, 97, 105, 108, 119, 97, 121, 115>>

\* "Create"
DisplayCreate ==
    <<67, 114, 101, 97, 116, 101>>

\* "Create: Steam 'n' Rails"
RailsName ==
    <<67, 114, 101, 97, 116, 101, 58, 32, 83, 116, 101, 97, 109, 32, 39,
      110, 39, 32, 82, 97, 105, 108, 115>>

\* "Create: Steam 'n' Rails (may not be needed, it means that the schematic was created with it)"
RailsNote ==
    <<67, 114, 101, 97, 116, 101, 58, 32, 83, 116, 101, 97, 109, 32, 39,
      110, 39, 32, 82, 97, 105, 108, 115, 32, 40, 109, 97, 121, 32, 110,
      111, 116, 32, 98, 101, 32, 110, 101, 101, 100, 101, 100, 44, 32, 105,
      116, 32, 109, 101, 97, 110, 115, 32, 116, 104, 97, 116, 32, 116, 104,
      101, 32, 115, 99, 104, 101, 109, 97, 116, 105, 99, 32, 119, 97, 115,
      32, 99, 114, 101, 97, 116, 101, 100, 32, 119, 105, 116, 104, 32, 105,
      116, 41>>

Colon == 58

\* the JavaScript value undefined
Undefined == NoVal

\* ToBoolean of a decoded value: 0, -0, NaN and "" are false
Truthy(v) ==
    CASE v.j = "int"  -> v.n # 0
      [] v.j = "wide" -> v.s # <<0, 0, 0, 0>>
      [] v.j = "f32"  ->
            /\ \E i \in 2..4 : v.s[i] # 0 \/ v.s[1] \notin {0, 128}
            /\ ~(/\ v.s[1] \in {127, 255}
                 /\ v.s[2] >= 128
                 /\ v.s[2] > 128 \/ v.s[3] > 0 \/ v.s[4] > 0)
      [] v.j = "f64"  ->
            /\ \E i \in 2..8 : v.s[i] # 0 \/ v.s[1] \notin {0, 128}
            /\ ~(/\ v.s[1] \in {127, 255}
                 /\ v.s[2] >= 240
                 /\ v.s[2] > 240 \/ \E i \in 3..8 : v.s[i] > 0)
      [] v.j = "str"  -> v.s # <<>>
      [] v.j \in {"arr", "obj"} -> TRUE
      [] OTHER        -> FALSE

\* v[name] for a property name no prototype defines: an own property of an
\* object, undefined on every other value
GetProperty(v, name) ==
    IF v.j = "obj" /\ HasKey(v.c, name)
    THEN v.c[CHOOSE i \in 1..Len(v.c) : v.c[i].name = name].val
    ELSE Undefined

\* the length of a String in UTF-16 code units
Utf16Length(s) == Len(s) + Cardinality({i \in 1..Len(s) : s[i] > 65535})

\* v.length
JsLength(v) ==
    CASE v.j = "arr" -> IntVal(Len(v.c))
      [] v.j = "str" -> IntVal(Utf16Length(v.s))
      [] OTHER       -> GetProperty(v, LengthKey)

\* what for (const value of v) visits: the elements of an Array, the code
\* points of a String; every other decoded value is not iterable
Iterable(v) == v.j \in {"arr", "str"}

Elements(v) ==
    IF v.j = "arr" THEN [i \in 1..Len(v.c) |-> v.c[i].val]
    ELSE [i \in 1..Len(v.s) |-> SeqVal("str", <<v.s[i]>>)]

\* the decimal digits of a small index
IndexDigits(i) ==
    IF i < 10 THEN <<48 + i>> ELSE <<48 + (i \div 10), 48 + (i % 10)>>

\* v[i] for i in 0..2
JsIndex(v, i) ==
    CASE v.j = "arr" -> IF i < Len(v.c) THEN v.c[i + 1].val ELSE Undefined
      [] v.j = "str" -> IF i < Len(v.s) /\ \A k \in 1..(i + 1) : v.s[k] <= 65535
                        THEN SeqVal("str", <<v.s[i + 1]>>)
                        ELSE IF i < Utf16Length(v.s)
                        THEN SeqVal("str", <<65533>>)
                        ELSE Undefined
      [] OTHER       -> GetProperty(v, IndexDigits(i))

\* blockName.split(":")[0]
Namespace(s) ==
    LET at == {i \in 1..Len(s) : s[i] = Colon}
    IN  IF at = {} THEN s
        ELSE SubSeq(s, 1, (CHOOSE i \in at : \A k \in at : i <= k) - 1)

\* the namespace -> display-name lookup: a table, and the namespace itself
\* for a namespace the table does not hold
getModName(ns) ==
    CASE ns = NsCreate   -> DisplayCreate
      [] ns = NsRailways -> RailsName
      [] OTHER           -> ns

\* the DataVersion -> release-label lookup: the label of a version number,
\* or the label of an unknown version
getVersionName(v) ==
    [j |-> "label", n |-> IF v.j = "int" THEN v.n ELSE -1, s |-> <<>>,
     c |-> <<>>]

Includes(seq, x) == \E i \in 1..Len(seq) : seq[i] = x

\* the loop without `if (mods.includes(name)) continue`
RECURSIVE WalkPalette_NoDedup(_, _, _, _)
WalkPalette_NoDedup(elems, i, mods, counts) ==
    IF i > Len(elems) THEN [err |-> "", mods |-> mods, counts |-> counts]
    ELSE LET blockName == GetProperty(elems[i], NameKey)
             namev     == Namespace(blockName.s)
             name      == getModName(namev)
             zeroed    == SetProperty(counts, blockName.s, IntVal(0))
         IN  IF ~Truthy(blockName)
               THEN WalkPalette_NoDedup(elems, i + 1, mods, counts)
             ELSE IF blockName.j # "str"
               THEN [err |-> "TypeError", mods |-> mods, counts |-> counts]
             ELSE IF namev = Minecraft
               THEN WalkPalette_NoDedup(elems, i + 1, mods, zeroed)
             ELSE WalkPalette_NoDedup(elems, i + 1, Append(mods, name), zeroed)

\* the loop over schematicData.palette: mods and blockCounts after it, or the
\* TypeError of split on a Name that is not a String
RECURSIVE WalkPalette(_, _, _, _)
WalkPalette(elems, i, mods, counts) ==
    IF i > Len(elems) THEN [err |-> "", mods |-> mods, counts |-> counts]
    ELSE LET blockName == GetProperty(elems[i], NameKey)
             namev     == Namespace(blockName.s)
             name      == getModName(namev)
             zeroed    == SetProperty(counts, blockName.s, IntVal(0))
         IN  IF ~Truthy(blockName) THEN WalkPalette(elems, i + 1, mods, counts)
             ELSE IF blockName.j # "str"
               THEN [err |-> "TypeError", mods |-> mods, counts |-> counts]
             ELSE IF namev = Minecraft \/ Includes(mods, name)
               THEN WalkPalette(elems, i + 1, mods, zeroed)
             ELSE WalkPalette(elems, i + 1, Append(mods, name), zeroed)

\* the value of a canonical decimal index of at most 9 digits
RECURSIVE Decimal(_)
Decimal(s) ==
    IF s = <<>> THEN 0
    ELSE 10 * Decimal(SubSeq(s, 1, Len(s) - 1)) + (s[Len(s)] - 48)

\* the 0-based position palette[paletteIndex] names when
\* paletteIndex < palette.length holds and the position exists; -1 when the
\* comparison fails or the property is undefined; -2 for a state whose
\* conversion to a number is not modelled (a float or an Array)
PaletteIndex(state, n) ==
    CASE state.j = "int"  -> IF state.n >= 0 /\ state.n < n THEN state.n ELSE -1
      [] state.j = "wide" ->
            IF /\ state.s[1] = 0 /\ state.s[2] = 0 /\ state.s[3] < 32768
               /\ state.s[3] * 65536 + state.s[4] < n
            THEN state.s[3] * 65536 + state.s[4] ELSE -1
      [] state.j = "str"  ->
            IF IsArrayIndex(state.s) /\ Len(state.s) <= 9
            THEN IF Decimal(state.s) < n THEN Decimal(state.s) ELSE -1
            ELSE -1
      [] state.j = "obj"  -> -1
      [] OTHER            -> -2

\* blockCounts[blockName] = (blockCounts[blockName] || 0) + 1: the value read
\* under "__proto__" is Object.prototype, and storing a String there does
\* nothing
Increment(counts, blockName) ==
    IF blockName = ProtoName THEN counts
    ELSE SetProperty(counts, blockName,
                     IntVal(GetProperty(BoxVal("obj", counts), blockName).n + 1))

\* the loop over schematicData.blocks
RECURSIVE CountBlocks(_, _, _, _)
CountBlocks(blocks, i, palette, counts) ==
    IF i > Len(blocks) THEN [err |-> "", counts |-> counts]
    ELSE LET state == GetProperty(blocks[i], StateKey)
             k     == PaletteIndex(state, Len(palette))
             name  == GetProperty(palette[k + 1], NameKey)
         IN  IF ~Truthy(blocks[i]) \/ state = Undefined
               THEN CountBlocks(blocks, i + 1, palette, counts)
             ELSE IF k = -2 THEN [err |-> "Unmodelled", counts |-> counts]
             ELSE IF k = -1 \/ ~Truthy(name)
               THEN CountBlocks(blocks, i + 1, palette, counts)
             ELSE CountBlocks(blocks, i + 1, palette, Increment(counts, name.s))

\* Object.entries(blockCounts) filtered by count > 0
BlockList(counts) ==
    LET kept == SelectSeq(counts, LAMBDA e : e.val.n > 0)
    IN  [i \in 1..Len(kept) |-> [name |-> kept[i].name, count |-> kept[i].val.n]]

\* the state of a parseSchematic call: status "none" (not called), "pending"
\* (awaiting parse), "ok" (returned the summary), "error" (threw err); cb =
\* a progress callback was given; notified = the percentages parseSchematic
\* itself handed to it
NoSchematic ==
    [status |-> "none", err |-> "", cb |-> FALSE, version |-> Undefined,
     totalBlocks |-> Undefined, width |-> Undefined, height |-> Undefined,
     length |-> Undefined, mods |-> <<>>, blocks |-> <<>>, notified |-> <<>>]

Rejected(sch, kind, notified) ==
    [sch EXCEPT !.status = "error", !.err = kind, !.notified = notified]

\* the check without its `!nbtData ||`: reading .value of null throws
InvalidNbt_NoNullCheck(nbtData) ==
    IF nbtData.k # "tag" THEN "TypeError"
    ELSE IF ~Truthy(nbtData.val) THEN "InvalidStructure"
    ELSE ""

\* if (!nbtData || !nbtData.value) throw new Error("Invalid NBT structure")
InvalidNbt(nbtData) ==
    IF nbtData.k # "tag" \/ ~Truthy(nbtData.val) THEN "InvalidStructure"
    ELSE ""

\* parseSchematic after `await this.nbtParser.parse(...)` returned nbtData
Summary(sch, nbtData) ==
    LET note(log, p)  == IF sch.cb THEN Append(log, Pct(p, 1)) ELSE log
        n75           == note(<<>>, 75)
        n85           == note(n75, 85)
        n100          == note(note(n85, 95), 100)
        schematicData == nbtData.val
        palette       == GetProperty(schematicData, PaletteKey)
        blocks        == GetProperty(schematicData, BlocksKey)
        size          == GetProperty(schematicData, SizeKey)
        walk          == WalkPalette(Elements(palette), 1, <<>>, <<>>)
        count         == IF blocks.j = "arr"
                         THEN CountBlocks(Elements(blocks), 1,
                                          Elements(palette), walk.counts)
                         ELSE [err |-> "", counts |-> walk.counts]
        railways      == /\ HasKey(schematicData.c, RailwaysKey)
                         /\ ~Includes(walk.mods, RailsName)
    IN  IF InvalidNbt(nbtData) # ""
          THEN Rejected(sch, InvalidNbt(nbtData), n75)
        ELSE IF ~Iterable(palette) THEN Rejected(sch, "TypeError", n85)
        ELSE IF walk.err # "" THEN Rejected(sch, walk.err, n85)
        ELSE IF count.err # "" THEN Rejected(sch, count.err, n85)
        ELSE IF blocks = Undefined \/ size = Undefined
          THEN Rejected(sch, "TypeError", n85)
        ELSE [sch EXCEPT
                !.status      = "ok",
                !.version     = getVersionName(
                                    GetProperty(schematicData, DataVersionKey)),
                !.totalBlocks = JsLength(blocks),
                !.width       = JsIndex(size, 0),
                !.height      = JsIndex(size, 1),
                !.length      = JsIndex(size, 2),
                !.mods        = IF railways THEN Append(walk.mods, RailsNote)
                                ELSE walk.mods,
                !.blocks      = BlockList(count.counts),
                !.notified    = n100]

\* wrappedCallback: Math.min(70, percentage * 0.7), as a fraction
wrappedCallback(p) ==
    IF 7 * p.num > 700 * p.den THEN Pct(70, 1) ELSE Pct(7 * p.num, 10 * p.den)

\* every percentage the caller's progress callback has received: those of
\* parse, through wrappedCallback under parseSchematic, then those of
\* parseSchematic itself
SinkLog ==
    IF schematic.status = "none" THEN progress
    ELSE [i \in 1..Len(progress) |-> wrappedCallback(progress[i])]
           \o schematic.notified

-----------------------------------------------------------------------------
(* Reference encoder of the tag grammar.  A tree node is [t, n, s, c, et]: *)
(* t the tag type; n the value of a Byte, Short or Int; s the limbs of a   *)
(* Long, the bytes of a Float or Double, the signed bytes of a byte array, *)
(* the code points of a String, the elements of an int array; c the named  *)
(* entries of a Compound, the elements of a List or of a long array; et    *)
(* the element type of a List.                                             *)

Node(t, n, s, c, et) == [t |-> t, n |-> n, s |-> s, c |-> c, et |-> et]

TByte(n) == Node(1, n, <<>>, <<>>, 0)
TShort(n) == Node(2, n, <<>>, <<>>, 0)
TInt(n) == Node(3, n, <<>>, <<>>, 0)
TLong(l) == Node(4, 0, l, <<>>, 0)
TFloat(bs) == Node(5, 0, bs, <<>>, 0)
TDouble(bs) == Node(6, 0, bs, <<>>, 0)
TByteArray(bs) == Node(7, 0, bs, <<>>, 0)
TString(cps) == Node(8, 0, cps, <<>>, 0)
TList(et, elems) ==
    Node(9, 0, <<>>, [i \in 1..Len(elems) |-> Entry(<<>>, elems[i])], et)
TCompound(entries) == Node(10, 0, <<>>, entries, 0)
TIntArray(ns) == Node(11, 0, ns, <<>>, 0)
TLongArray(ls) ==
    Node(12, 0, <<>>, [i \in 1..Len(ls) |-> Entry(<<>>, TLong(ls[i]))], 0)

EncU16(n) == <<(n \div 256) % 256, n % 256>>

EncS32(n) ==
    <<(n \div 16777216) % 256, (n \div 65536) % 256, (n \div 256) % 256,
      n % 256>>

EncLimbs(l) == EncU16(l[1]) \o EncU16(l[2]) \o EncU16(l[3]) \o EncU16(l[4])

EncCodePoint(cp) ==
    IF cp < 128 THEN <<cp>>
    ELSE IF cp < 2048 THEN <<192 + (cp \div 64), 128 + (cp % 64)>>
    ELSE IF cp < 65536
      THEN <<224 + (cp \div 4096), 128 + ((cp \div 64) % 64), 128 + (cp % 64)>>
    ELSE <<240 + (cp \div 262144), 128 + ((cp \div 4096) % 64),
           128 + ((cp \div 64) % 64), 128 + (cp % 64)>>

RECURSIVE EncUtf8(_)
EncUtf8(cps) ==
    IF cps = <<>> THEN <<>> ELSE EncCodePoint(Head(cps)) \o EncUtf8(Tail(cps))

EncString(cps) == EncU16(Len(EncUtf8(cps))) \o EncUtf8(cps)

RECURSIVE EncInts(_)
EncInts(ns) == IF ns = <<>> THEN <<>> ELSE EncS32(Head(ns)) \o EncInts(Tail(ns))

RECURSIVE EncPayload(_)
RECURSIVE EncElems(_)
RECURSIVE EncEntries(_)
EncPayload(nd) ==
    CASE nd.t = 1  -> <<nd.n % 256>>
      [] nd.t = 2  -> EncU16(nd.n)
      [] nd.t = 3  -> EncS32(nd.n)
      [] nd.t = 4  -> EncLimbs(nd.s)
      [] nd.t = 5  -> nd.s
      [] nd.t = 6  -> nd.s
      [] nd.t = 7  -> EncS32(Len(nd.s)) \o [i \in 1..Len(nd.s) |-> nd.s[i] % 256]
      [] nd.t = 8  -> EncString(nd.s)
      [] nd.t = 9  -> <<nd.et>> \o EncS32(Len(nd.c)) \o EncElems(nd.c)
      [] nd.t = 10 -> EncEntries(nd.c) \o <<0>>
      [] nd.t = 11 -> EncS32(Len(nd.s)) \o EncInts(nd.s)
      [] nd.t = 12 -> EncS32(Len(nd.c)) \o EncElems(nd.c)

EncElems(c) ==
    IF c = <<>> THEN <<>> ELSE EncPayload(Head(c).val) \o EncElems(Tail(c))

EncEntries(c) ==
    IF c = <<>> THEN <<>>
    ELSE <<Head(c).val.t>> \o EncString(Head(c).name)
           \o EncPayload(Head(c).val) \o EncEntries(Tail(c))

\* the document whose root tag has the given name and tree
EncTag(name, nd) == <<nd.t>> \o EncString(name) \o EncPayload(nd)

\* the insertion-ordered mapping of the grammar: a later duplicate key
\* overwrites the value and keeps the position of the first
OrderedPut(c, name, val) ==
    IF HasKey(c, name)
    THEN [i \in 1..Len(c) |-> IF c[i].name = name THEN Entry(name, val) ELSE c[i]]
    ELSE Append(c, Entry(name, val))

\* the value a tree stands for
RECURSIVE ValueOf(_)
RECURSIVE ValuesOf(_)
RECURSIVE MappingOf(_, _)
ValueOf(nd) ==
    CASE nd.t \in {1, 2, 3} -> IntVal(nd.n)
      [] nd.t = 4  -> SeqVal("wide", nd.s)
      [] nd.t = 5  -> SeqVal("f32", nd.s)
      [] nd.t = 6  -> SeqVal("f64", nd.s)
      [] nd.t = 7  -> BoxVal("arr", [i \in 1..Len(nd.s) |->
                                       Entry(<<>>, IntVal(nd.s[i]))])
      [] nd.t = 8  -> SeqVal("str", nd.s)
      [] nd.t = 9  -> BoxVal("arr", ValuesOf(nd.c))
      [] nd.t = 10 -> BoxVal("obj", MappingOf(nd.c, <<>>))
      [] nd.t = 11 -> BoxVal("arr", [i \in 1..Len(nd.s) |->
                                       Entry(<<>>, IntVal(nd.s[i]))])
      [] nd.t = 12 -> BoxVal("arr", ValuesOf(nd.c))

ValuesOf(c) ==
    IF c = <<>> THEN <<>>
    ELSE <<Entry(<<>>, ValueOf(Head(c).val))>> \o ValuesOf(Tail(c))

MappingOf(c, m) ==
    IF c = <<>> THEN m
    ELSE MappingOf(Tail(c), OrderedPut(m, Head(c).name, ValueOf(Head(c).val)))

RECURSIVE DepthOf(_)
RECURSIVE MaxDepthOf(_)
\* nesting of Compound and List payloads, a lone container counting 1
DepthOf(nd) == IF nd.t \in {9, 10} THEN 1 + MaxDepthOf(nd.c) ELSE 0

MaxDepthOf(c) ==
    IF c = <<>> THEN 0
    ELSE LET h == DepthOf(Head(c).val)
             r == MaxDepthOf(Tail(c))
         IN  IF h > r THEN h ELSE r

-----------------------------------------------------------------------------
(* Inputs of parse *)

NmA == <<97>>
NmB == <<98>>
Nm0 == <<48>>
Nm1 == <<49>>
Nm10 == <<49, 48>>
Nm01 == <<48, 49>>

MinInt32 == -2147483647 - 1

\* trees that occur as a member of a Compound or as a document root
Leaves ==
    { TByte(5), TByte(-1), TShort(300), TShort(-2), TInt(70000), TInt(-3),
      TLong(<<0, 0, 0, 7>>), TLong(<<0, 0, 32768, 0>>),
      TLong(<<-1, 65535, 65535, 65535>>), TLong(<<64, 0, 0, 1>>),
      TFloat(<<63, 128, 0, 0>>), TDouble(<<64, 9, 33, 251, 84, 68, 45, 24>>),
      TByteArray(<<>>), TByteArray(<<1, 2>>), TByteArray(<<-1>>),
      TString(<<>>), TString(<<104, 105>>), TString(<<233>>),
      TString(<<65279, 97>>),
      TList(0, <<>>), TList(10, <<>>), TList(1, <<TByte(1), TByte(2)>>),
      TList(3, <<TInt(1)>>), TList(8, <<TString(NmA)>>),
      TList(10, <<TCompound(<<>>)>>),
      TList(10, <<TCompound(<<Entry(NmA, TByte(1))>>), TCompound(<<>>)>>),
      TList(9, <<TList(1, <<TByte(1)>>), TList(0, <<>>)>>),
      TList(7, <<TByteArray(<<1>>)>>), TList(11, <<TIntArray(<<1>>)>>),
      TList(12, <<TLongArray(<<<<0, 0, 0, 7>>>>)>>),
      TIntArray(<<>>), TIntArray(<<1, -1>>),
      TLongArray(<<>>), TLongArray(<<<<0, 0, 0, 7>>, <<0, 0, 1, 0>>>>),
      TCompound(<<>>), TCompound(<<Entry(NmA, TList(3, <<TInt(1)>>))>>) }

PairLeaves ==
    { TByte(5), TShort(300), TInt(-3), TString(<<104, 105>>),
      TList(10, <<TCompound(<<>>)>>), TIntArray(<<1, -1>>), TCompound(<<>>) }

PairNames == { <<NmA, NmB>>, <<NmB, NmA>>, <<NmB, Nm1>>, <<Nm1, Nm0>> }

\* a tree with all twelve tag kinds, a List of Compound and a Compound of List
AllKinds ==
    TCompound(<<
        Entry(<<98>>, TByte(5)), Entry(<<115>>, TShort(300)),
        Entry(<<105>>, TInt(70000)), Entry(<<108>>, TLong(<<0, 0, 0, 7>>)),
        Entry(<<102>>, TFloat(<<63, 128, 0, 0>>)),
        Entry(<<100>>, TDouble(<<64, 9, 33, 251, 84, 68, 45, 24>>)),
        Entry(<<66>>, TByteArray(<<1, 2>>)), Entry(<<83>>, TString(<<104, 105>>)),
        Entry(<<76>>, TList(10, <<TCompound(<<Entry(NmA, TList(3, <<TInt(1)>>))>>)>>)),
        Entry(<<73>>, TIntArray(<<1, 2>>)),
        Entry(<<74>>, TLongArray(<<<<0, 0, 0, 7>>>>)) >>)

\* well-formed documents with distinct member names: [name, tree]
WellFormed ==
    { [name |-> <<>>, tree |-> x] : x \in Leaves }
    \cup { [name |-> <<114>>, tree |-> TCompound(<<Entry(NmA, x)>>)] : x \in Leaves }
    \cup { [name |-> <<>>, tree |-> TCompound(<<Entry(nm[1], x), Entry(nm[2], y)>>)] :
             nm \in PairNames, x \in PairLeaves, y \in PairLeaves }
    \cup { [name |-> <<>>, tree |-> AllKinds] }

\* compounds of up to MaxTags byte members named from KeyNames, the i-th
\* member holding the byte i
MaxTags == 3

KeyNames == { NmA, NmB, Nm0, Nm1, Nm10, Nm01, ProtoName }

KeySeqs == UNION { [1..n -> KeyNames] : n \in 0..MaxTags }

KeyTree(ks) == TCompound([i \in 1..Len(ks) |-> Entry(ks[i], TByte(i))])

\* documents whose containers nest deep, written out as bytes:
\* [doc, depth], depth being the nesting of the tree that doc encodes
Repeat(x, n) == [i \in 1..(n * Len(x)) |-> x[((i - 1) % Len(x)) + 1]]

\* payload of a Compound that is the head of a chain of n Compounds
CompoundChain(n) == Repeat(<<10, 0, 1, 97>>, n - 1) \o Repeat(<<0>>, n)

\* payload of a List that is the head of a chain of n Lists
ListChain(n) == Repeat(<<9, 0, 0, 0, 1>>, n - 1) \o <<0, 0, 0, 0, 0>>

\* payload of a Compound holding a List of one Compound holding ..., k times
MixedChain(k, innermost) ==
    Repeat(<<9, 0, 1, 97, 10, 0, 0, 0, 1>>, k) \o innermost \o Repeat(<<0>>, k + 1)

Deep(doc, depth) == [doc |-> doc, depth |-> depth]

DeepDocs ==
    { Deep(<<10, 0, 0>> \o CompoundChain(n), n) :
        n \in (maxDepth - 1)..(maxDepth + 2) }
    \cup { Deep(<<10, 0, 0, 9, 0, 1, 97>> \o ListChain(n) \o <<0>>, n + 1) :
             n \in (maxDepth - 2)..maxDepth }
    \cup { Deep(<<10, 0, 0>> \o MixedChain(k, <<>>), 2 * k + 1) :
             k \in {(maxDepth \div 2) - 1, maxDepth \div 2} }
    \cup { Deep(<<10, 0, 0>> \o MixedChain((maxDepth \div 2) - 1, tl),
                2 * (maxDepth \div 2) - 1 + d) :
             <<tl, d>> \in { <<<<9, 0, 1, 97, 0, 0, 0, 0, 0>>, 1>>,
                             <<<<9, 0, 1, 97, 9, 0, 0, 0, 1, 0, 0, 0, 0, 0>>, 2>> } }
    \cup { Deep(<<10, 0, 0, 10, 0, 1, 97>> \o CompoundChain(n)
                  \o <<10, 0, 1, 98>> \o CompoundChain(n) \o <<0>>, n + 1) :
             n \in {maxDepth - 1, maxDepth} }
    \cup { Deep(<<10, 0, 0, 9, 0, 1, 97, 10, 0, 0, 0, 2>> \o CompoundChain(n)
                  \o CompoundChain(n) \o <<0>>, n + 2) :
             n \in {maxDepth - 2, maxDepth - 1} }
    \cup { Deep(<<10, 0, 0, 9, 0, 1, 97, 7, 0, 0, 0, 1, 0, 0, 0, 1, 1,
                  10, 0, 1, 98>> \o CompoundChain(maxDepth) \o <<0>>,
                maxDepth + 1) }

\* a document cut short after k bytes
TruncTrees ==
    { TCompound(<<Entry(NmA, x)>>) :
        x \in { TShort(300), TInt(70000), TLong(<<0, 0, 0, 7>>),
                TFloat(<<63, 128, 0, 0>>), TString(<<104, 105>>),
                TByteArray(<<1, 2>>), TIntArray(<<1, 2>>),
                TLongArray(<<<<0, 0, 0, 7>>>>), TList(3, <<TInt(1), TInt(2)>>),
                TList(1, <<TByte(1), TByte(2)>>), TList(8, <<TString(NmA)>>),
                TList(10, <<TCompound(<<>>)>>) } }

Truncated ==
    UNION { { SubSeq(EncTag(<<>>, t), 1, k) : k \in 1..(Len(EncTag(<<>>, t)) - 1) } :
            t \in TruncTrees }

\* length fields
LenSamples ==
    { MinInt32, -1, 0, 1, 2, 3, 8, 52428800, 52428801, 2147483647 }

Tails == { <<>>, <<7>>, <<7, 7, 7, 7>>, <<7, 7, 7, 7, 7, 7, 7, 7>>,
           <<0, 7, 7, 7, 7, 7, 7, 7, 7, 7, 7, 7, 7, 7, 7, 7, 7, 0>> }

ArrayDocs ==
    { pre \o <<t>> \o EncString(NmA) \o EncS32(n) \o tl :
        pre \in { <<>>, <<10, 0, 0>> }, t \in {7, 11, 12}, n \in LenSamples,
        tl \in Tails }

ListDocs ==
    { <<9, 0, 0, et>> \o EncS32(n) \o tl :
        et \in 0..13, n \in LenSamples, tl \in { <<>>, <<0>>, <<0, 0, 0, 0, 0, 0, 0, 0, 0, 0>> } }

StringDocs ==
    { <<8, 0, 0>> \o EncU16(n) \o tl :
        n \in {0, 1, 2, 5, 65535},
        tl \in { <<>>, <<97>>, <<97, 98>>, <<195>>, <<195, 169>>, <<239, 187, 191, 97>> } }

\* tag type bytes outside 0..12, and a root that is TAG_End
UnknownTypes == {13, 14, 100, 128, 255}

TypeDocs ==
    { pre \o <<t>> \o nm \o tl :
        pre \in { <<>>, <<10, 0, 0>> }, t \in UnknownTypes \cup {0},
        nm \in { <<>>, <<0>>, <<0, 0>>, <<0, 1, 97>>, <<0, 5, 97>> },
        tl \in { <<>>, <<0>>, <<5, 0>> } }

\* every pattern of a fixed-width integer payload
ByteSamples == {0, 1, 127, 128, 255}

WordSamples == {0, 128, 255}

BitSamples == {0, 255}

ByteDocs == { <<1, 0, 0, b>> : b \in 0..255 }

ShortDocs == { <<2, 0, 0, b0, b1>> : b0 \in ByteSamples, b1 \in ByteSamples }

IntDocs ==
    { <<3, 0, 0, b0, b1, b2, b3>> :
        b0 \in ByteSamples, b1 \in ByteSamples, b2 \in ByteSamples,
        b3 \in ByteSamples }

LongDocs ==
    { <<4, 0, 0, b0, b1, b2, b3, b4, b5, b6, b7>> :
        b0 \in WordSamples \cup {32}, b1 \in WordSamples, b2 \in BitSamples,
        b3 \in BitSamples, b4 \in WordSamples, b5 \in BitSamples,
        b6 \in BitSamples \cup {4}, b7 \in WordSamples \cup {1} }

\* long arrays of one element
LongArrayDocs ==
    { <<12, 0, 0, 0, 0, 0, 1, b0, b1, 0, b3, b4, 0, b6, b7>> :
        b0 \in BitSamples, b1 \in BitSamples, b3 \in BitSamples,
        b4 \in WordSamples, b6 \in BitSamples, b7 \in BitSamples }

\* schematic documents: a root Compound with palette, blocks, size and
\* DataVersion
NmStone == Minecraft \o <<Colon, 115>>
NmBrass == NsCreate \o <<Colon, 98>>
NmCogs == NsCreate \o <<Colon, 99, Colon, 100>>
NmRail == NsRailways \o <<Colon, 116>>
NmPlain == <<120>>

BlockNames == { NmStone, NmBrass, NmCogs, NmRail, ProtoName, Nm1 }

\* palettes hold up to MaxPalette entries
MaxPalette == 2

Palettes ==
    UNION { [1..n -> BlockNames] : n \in 0..MaxPalette }
    \cup { <<NmStone, NmBrass, NmStone>>, <<NmBrass, NmRail, NmCogs>> }

StateSeqs == { <<>>, <<0>>, <<0, 1, 1>>, <<1, 0, 2, -1, 1>> }

PaletteEntry(name) == TCompound(<<Entry(NameKey, TString(name))>>)

Block(state) == TCompound(<<Entry(StateKey, state)>>)

PaletteOf(names) == TList(10, [i \in 1..Len(names) |-> PaletteEntry(names[i])])

BlocksOf(states) == TList(10, [i \in 1..Len(states) |-> Block(TInt(states[i]))])

SizeOf == TIntArray(<<1, 1, 3>>)

Fields(palette, blocks) ==
    <<Entry(PaletteKey, palette), Entry(BlocksKey, blocks),
      Entry(SizeKey, SizeOf), Entry(DataVersionKey, TInt(3465))>>

RailwaysField == <<Entry(RailwaysKey, TInt(2))>>

\* [names, states, railways]: the palette names, the states of the blocks
\* and whether the root carries Railways_DataVersion
Shapes ==
    { [names |-> ns, states |-> st, railways |-> FALSE] :
        ns \in Palettes, st \in StateSeqs }
    \cup { [names |-> ns, states |-> <<0, 1, 1>>, railways |-> TRUE] :
             ns \in Palettes }

ShapeTree(sh) ==
    TCompound(Fields(PaletteOf(sh.names), BlocksOf(sh.states))
              \o (IF sh.railways THEN RailwaysField ELSE <<>>))

\* roots that lack a field, or hold a field of another kind
Drop(c, name) == SelectSeq(c, LAMBDA e : e.name # name)

Usual == Fields(PaletteOf(<<NmStone, NmBrass>>), BlocksOf(<<0, 1, 1>>))

With(name, tree) ==
    [i \in 1..Len(Usual) |->
        IF Usual[i].name = name THEN Entry(name, tree) ELSE Usual[i]]

OddTrees ==
    { TCompound(Drop(Usual, k)) :
        k \in {PaletteKey, BlocksKey, SizeKey, DataVersionKey} }
    \cup { TCompound(Drop(Drop(Usual, BlocksKey), SizeKey)) }
    \cup { TCompound(With(PaletteKey, t)) :
             t \in { TString(NmBrass), TInt(5), TCompound(<<>>),
                     TByteArray(<<1, 0>>), TList(3, <<TInt(7), TInt(0)>>),
                     TList(8, <<TString(NmBrass)>>),
                     TList(10, <<TCompound(<<>>), PaletteEntry(NmPlain)>>),
                     TList(10, <<PaletteEntry(<<>>), PaletteEntry(NmBrass)>>),
                     TList(10, <<TCompound(<<Entry(NameKey, TInt(0))>>),
                                 PaletteEntry(Minecraft)>>),
                     TList(10, <<PaletteEntry(NmBrass),
                                 TCompound(<<Entry(NameKey, TInt(5))>>)>>),
                     TList(10, <<PaletteEntry(<<Colon, 97>>),
                                 PaletteEntry(NmPlain), PaletteEntry(NmPlain)>>) } }
    \cup { TCompound(With(BlocksKey, t)) :
             t \in { TInt(5), TInt(0), TString(NmBrass), TIntArray(<<0, 1>>),
                     TCompound(<<Entry(LengthKey, TInt(9))>>),
                     TList(3, <<TInt(0), TInt(1)>>),
                     TList(10, <<TCompound(<<>>), Block(TInt(1))>>),
                     TList(10, <<Block(TByte(1)), Block(TShort(0)),
                                 Block(TLong(<<0, 0, 0, 1>>)),
                                 Block(TLong(<<-1, 65535, 65535, 65535>>)),
                                 Block(TString(Nm1)), Block(TString(Nm01)),
                                 Block(TCompound(<<>>)), Block(TByte(-1))>>) } }
    \cup { TCompound(With(SizeKey, t)) :
             t \in { TInt(5), TIntArray(<<4>>), TString(NmBrass),
                     TList(3, <<TInt(1), TInt(2), TInt(3)>>),
                     TCompound(<<Entry(Nm0, TInt(6))>>) } }

SchematicDocs ==
    { EncTag(<<>>, ShapeTree(sh)) : sh \in Shapes }
    \cup { EncTag(<<>>, t) : t \in OddTrees }

\* documents with compounds of 50 tags and more and lists of more than 500
\* elements: progress is reported from inside the loops
Members(n) == Repeat(<<1, 0, 1, 97, 5>>, n)

ProgressDocs ==
    { <<10, 0, 0>> \o Members(n) \o <<0>> : n \in {49, 50, 100} }
    \cup { <<10, 0, 0>> \o Members(49) \o <<8, 0, 1, 97, 255, 255>>,
           <<10, 0, 0, 10, 0, 1, 98>> \o Members(50) \o <<0>>
               \o Members(50) \o <<0>>,
           <<9, 0, 0, 10, 0, 0, 1, 245>> \o Repeat(<<0>>, 501),
           <<9, 0, 0, 10, 0, 0, 3, 233>> \o Repeat(<<0>>, 1001),
           <<9, 0, 0, 9, 0, 0, 1, 245>> \o Repeat(<<0, 0, 0, 0, 0>>, 501) }

\* buffers around the gzip magic, and what the inflate collaborator may
\* answer for a compressed buffer
GzipDocs ==
    { <<31, 139>>, <<31, 139, 8, 0, 0>>, <<31, 139, 0, 0, 0, 0>>, <<31>>,
      <<31, 140, 0>>, <<139, 31, 0>>, <<31, 0, 139>>, <<30, 139, 0>> }

InflateOutputs ==
    { <<>>, <<0>>, <<10, 0, 0, 0>>, <<1, 0, 1, 97, 5>>, <<31, 139, 8, 0>>,
      <<31, 139>>, EncTag(<<>>, TCompound(Usual)) }

Inputs ==
    { EncTag(w.name, w.tree) : w \in WellFormed }
    \cup { EncTag(<<>>, KeyTree(ks)) : ks \in KeySeqs }
    \cup { dd.doc : dd \in DeepDocs }
    \cup Truncated \cup ArrayDocs \cup ListDocs \cup StringDocs \cup TypeDocs
    \cup ByteDocs \cup ShortDocs \cup IntDocs \cup LongDocs \cup LongArrayDocs
    \cup GzipDocs \cup { <<>> } \cup SchematicDocs \cup ProgressDocs
    \cup { <<11, 0, 0, 0, 0, 0, 8>> }

\* what parseSchematic is called with: schematic documents, and documents
\* of every other root kind, length and compression
SchematicInputs ==
    SchematicDocs \cup ProgressDocs \cup GzipDocs \cup TypeDocs \cup StringDocs
    \cup { EncTag(w.name, w.tree) : w \in WellFormed }
    \cup { EncTag(<<>>, KeyTree(ks)) : ks \in KeySeqs }
    \cup Truncated \cup { <<>>, <<1, 0, 0, 0>>, <<3, 0, 0, 0, 0, 0, 0>> }

-----------------------------------------------------------------------------
(* Actions *)

\* what this call got from pako.inflate
NotInflated == [called |-> FALSE, ok |-> FALSE, out |-> <<>>]

Inflated(inf) == [called |-> TRUE, ok |-> inf.ok, out |-> inf.out]

\* a call in progress apart from the one that is running: its own stack,
\* its pending result and the arguments it was made with
NoCall ==
    [stack |-> <<>>, ret |-> NoRet, pc |-> "idle", result |-> NoResult,
     buffer |-> <<>>, inflated |-> NotInflated, schematic |-> NoSchematic]

Init ==
    /\ data = <<>>
    /\ offset = 0
    /\ currentDepth = 0
    /\ operationCount = 0
    /\ progressCallback = FALSE
    /\ totalBytes = 0
    /\ progress = <<>>
    /\ stack = <<>>
    /\ ret = NoRet
    /\ pc = "idle"
    /\ result = NoResult
    /\ buffer = <<>>
    /\ oob = FALSE
    /\ lastLen = NoLen
    /\ inflateCalls = 0
    /\ inflated = NotInflated
    /\ schematic = NoSchematic
    /\ other = NoCall
    /\ calls = <<>>
    /\ instance = "fresh"

\* what pako.inflate may do with a buffer: throw, or return some bytes
InflateOutcomes ==
    { [ok |-> FALSE, out |-> <<>>] }
    \cup { [ok |-> TRUE, out |-> o] : o \in InflateOutputs }

\* decompress(data): err is "" when it returns
decompress(d, inf) ==
    IF isGzipped(d)
    THEN IF inf.ok THEN [err |-> "", data |-> inf.out, calls |-> 1]
         ELSE [err |-> "Corrupt", data |-> d, calls |-> 1]
    ELSE [err |-> "", data |-> d, calls |-> 0]

\* a parse that leaves the cursor where the call before left it
Rewind_Keeps(off) == off

\* this.offset = 0
Rewind(off) == 0

\* parse(buffer, progressCallback), up to its call of readTagAsync
parse(buf, cb, inf) ==
    /\ pc = "idle"
    /\ buffer' = buf
    /\ progressCallback' = cb
    /\ totalBytes' = Len(buf)
    /\ operationCount' = 0
    /\ lastLen' = lastLen
    /\ inflated' = IF Len(buf) > 0 /\ isGzipped(buf) THEN Inflated(inf)
                   ELSE NotInflated
    /\ LET p0  == updateProgress(progress, cb, Pct(0, 1))
           p5  == updateProgress(p0, cb, Pct(5, 1))
           p10 == updateProgress(p5, cb, Pct(10, 1))
           p25 == updateProgress(p10, cb, Pct(25, 1))
           p15 == updateProgress(p5, cb, Pct(15, 1))
           dec == decompress(buf, inf)
       IN  IF Len(buf) = 0
           THEN /\ Fail("EmptyInput", offset, FALSE)
                /\ progress' = p0
                /\ UNCHANGED <<data, currentDepth, inflateCalls>>
           ELSE IF isGzipped(buf)
           THEN /\ currentDepth' = 0
                /\ inflateCalls' = inflateCalls + dec.calls
                /\ IF dec.err # ""
                   THEN /\ Fail(dec.err, Rewind(offset), FALSE)
                        /\ data' = buf
                        /\ progress' = p10
                   ELSE /\ data' = dec.data
                        /\ progress' = updateProgress(p25, cb, Pct(30, 1))
                        /\ offset' = Rewind(offset)
                        /\ stack' = <<Frame("tag", "start")>>
                        /\ pc' = "running"
                        /\ UNCHANGED <<ret, result, oob>>
           ELSE /\ currentDepth' = 0
                /\ data' = buf
                /\ progress' = updateProgress(p15, cb, Pct(30, 1))
                /\ offset' = Rewind(offset)
                /\ stack' = <<Frame("tag", "start")>>
                /\ pc' = "running"
                /\ UNCHANGED <<ret, result, oob, inflateCalls>>

Parse ==
    /\ pc = "idle"
    /\ UNCHANGED <<schematic, other, calls, instance>>
    /\ \E buf \in Inputs, cb \in BOOLEAN, inf \in InflateOutcomes :
          parse(buf, cb, inf)

\* parseSchematic(buffer, progressCallback), up to its await of parse
parseSchematic(buf, cb, inf) ==
    /\ parse(buf, cb, inf)
    /\ schematic' = [NoSchematic EXCEPT !.status = "pending", !.cb = cb]

ParseSchematic ==
    /\ pc = "idle"
    /\ UNCHANGED <<other, calls, instance>>
    /\ \E buf \in SchematicInputs, cb \in BOOLEAN, inf \in InflateOutcomes :
          parseSchematic(buf, cb, inf)

\* readTagAsync after its yieldControl: the type byte, the name, the payload
ReadTag ==
    /\ UNCHANGED <<data, progressCallback, totalBytes, progress, buffer,
                   currentDepth, inflateCalls>>
    /\ LET t    == readByte(data, offset)
           type == t.v.n
           nm   == readString(data, t.off)
           r    == readPayloadAsync(type, data, nm.off)
       IN  IF t.err # ""
           THEN Fail(t.err, t.off, FALSE) /\ lastLen' = lastLen
           ELSE IF type = 0
           THEN /\ stack' = Pop(stack)
                /\ ret' = Ret("end", 0, <<>>, NoVal)
                /\ offset' = t.off
                /\ UNCHANGED <<pc, result, oob, lastLen>>
           ELSE IF IsContainer(type)
           THEN /\ stack' = Append(
                      SetTop(stack, [Top EXCEPT !.st = "wait", !.type = type,
                                                !.name = nm.v.s]),
                      Frame(IF type = 10 THEN "compound" ELSE "list", "start"))
                /\ offset' = nm.off
                /\ oob' = (oob \/ nm.oob)
                /\ UNCHANGED <<pc, result, ret, lastLen>>
           ELSE /\ lastLen' = IF type \in {7, 11, 12}
                              THEN LenField(type, readInt(data, nm.off).v.n,
                                            nm.off + 4, 0)
                              ELSE lastLen
                /\ IF r.err # ""
                   THEN Fail(r.err, r.off, nm.oob \/ r.oob)
                   ELSE /\ stack' = Pop(stack)
                        /\ ret' = Ret("tag", type, nm.v.s, r.v)
                        /\ offset' = r.off
                        /\ oob' = (oob \/ nm.oob \/ r.oob)
                        /\ UNCHANGED <<pc, result>>

\* readTagAsync: one yieldControl, then the tag
readTagAsync ==
    /\ Running("tag", "start")
    /\ UNCHANGED callers
    /\ operationCount' = operationCount + 1
    /\ ReadTag

\* readTagAsync resumed with the payload of a Compound or List
TagReturn ==
    /\ Running("tag", "wait")
    /\ UNCHANGED callers
    /\ ret.k = "val"
    /\ stack' = Pop(stack)
    /\ ret' = Ret("tag", Top.type, Top.name, ret.val)
    /\ UNCHANGED <<data, offset, currentDepth, operationCount,
                   progressCallback, totalBytes, progress, pc, result, buffer,
                   oob, lastLen, inflateCalls>>

\* a container that does not give its level back when it is done
Leave_Stays(depth) == depth

\* this.currentDepth--
Leave(depth) == depth - 1

\* readCompoundAsync: the depth guard and the first readTagAsync
readCompoundAsync ==
    /\ Running("compound", "start")
    /\ UNCHANGED callers
    /\ currentDepth' = currentDepth + 1
    /\ UNCHANGED <<data, operationCount, progressCallback, totalBytes,
                   progress, buffer, lastLen, inflateCalls>>
    /\ IF currentDepth + 1 > maxDepth
       THEN Fail("MaxDepthExceeded", offset, FALSE)
       ELSE /\ stack' = Append(SetTop(stack, [Top EXCEPT !.st = "loop"]),
                               Frame("tag", "start"))
            /\ UNCHANGED <<offset, ret, pc, result, oob>>

\* a loop that loses the tag it has just read when it stops to report
CompoundNext_ReportDrops ==
    /\ Running("compound", "loop")
    /\ UNCHANGED callers
    /\ ret.k \in {"end", "tag"}
    /\ UNCHANGED <<data, offset, progressCallback, totalBytes, pc, result,
                   buffer, oob, lastLen, inflateCalls>>
    /\ IF ret.k = "end"
       THEN /\ currentDepth' = Leave(currentDepth)
            /\ stack' = Pop(stack)
            /\ ret' = Ret("val", 0, <<>>, BoxVal("obj", Top.acc))
            /\ UNCHANGED <<operationCount, progress>>
       ELSE LET tagCount == Top.count + 1
                report   == tagCount % 50 = 0 /\ progressCallback
            IN  /\ stack' = Append(
                       SetTop(stack, [Top EXCEPT
                           !.acc = IF report THEN Top.acc
                                  ELSE SetProperty(Top.acc, ret.name,
                                                   ret.val),
                           !.count = tagCount]),
                       Frame("tag", "start"))
                /\ ret' = NoRet
                /\ progress' = IF report
                               THEN Append(progress, LoopPct(offset, data))
                               ELSE progress
                /\ operationCount' = IF report THEN operationCount + 1
                                     ELSE operationCount
                /\ UNCHANGED currentDepth

\* readCompoundAsync resumed with the result of readTagAsync
CompoundNext ==
    /\ Running("compound", "loop")
    /\ UNCHANGED callers
    /\ ret.k \in {"end", "tag"}
    /\ UNCHANGED <<data, offset, progressCallback, totalBytes, pc, result,
                   buffer, oob, lastLen, inflateCalls>>
    /\ IF ret.k = "end"
       THEN /\ currentDepth' = Leave(currentDepth)
            /\ stack' = Pop(stack)
            /\ ret' = Ret("val", 0, <<>>, BoxVal("obj", Top.acc))
            /\ UNCHANGED <<operationCount, progress>>
       ELSE LET tagCount == Top.count + 1
                report   == tagCount % 50 = 0 /\ progressCallback
            IN  /\ stack' = Append(
                       SetTop(stack, [Top EXCEPT
                           !.acc = SetProperty(Top.acc, ret.name, ret.val),
                           !.count = tagCount]),
                       Frame("tag", "start"))
                /\ ret' = NoRet
                /\ progress' = IF report
                               THEN Append(progress, LoopPct(offset, data))
                               ELSE progress
                /\ operationCount' = IF report THEN operationCount + 1
                                     ELSE operationCount
                /\ UNCHANGED currentDepth

\* the loop of readListAsync over elements read by readPayload
RECURSIVE ReadElems(_, _, _, _, _, _)
ReadElems(type, d, o, n, acc, ob) ==
    IF n = 0 THEN Got(BoxVal("arr", acc), o, ob)
    ELSE LET r == readPayload(type, d, o)
         IN  IF r.err # "" THEN Throw(r.err, r.off, ob \/ r.oob)
             ELSE ReadElems(type, d, r.off, n - 1,
                            Append(acc, Entry(<<>>, r.v)), ob \/ r.oob)

\* element types whose reader never throws: the loop then runs `length`
\* times, however short the buffer is
NeverThrows(type) == type \in {2, 3, 4, 5, 6, 8}

ScalarList(type, d, o, n) ==
    IF NeverThrows(type) /\ n > MaxElems THEN Throw("HostLimit", o, FALSE)
    ELSE ReadElems(type, d, o, n, <<>>, FALSE)

\* readListAsync: the depth guard, the header, and the elements up to the
\* first nested container
readListAsync ==
    /\ Running("list", "start")
    /\ UNCHANGED callers
    /\ UNCHANGED <<data, operationCount, progressCallback, totalBytes,
                   progress, buffer, inflateCalls>>
    /\ LET t      == readByte(data, offset)
           type   == t.v.n
           length == readInt(data, t.off).v.n
           lob    == readInt(data, t.off).oob
           off    == t.off + 4
           sl     == ScalarList(type, data, off, length)
       IN  IF currentDepth + 1 > maxDepth
           THEN /\ Fail("MaxDepthExceeded", offset, FALSE)
                /\ currentDepth' = currentDepth + 1
                /\ lastLen' = lastLen
           ELSE IF t.err # ""
           THEN /\ Fail(t.err, t.off, FALSE)
                /\ currentDepth' = currentDepth + 1
                /\ lastLen' = lastLen
           ELSE /\ lastLen' = LenField(9, length, off, type)
                /\ IF length < 0
                   THEN /\ Fail("InvalidLength", off, lob)
                        /\ currentDepth' = currentDepth + 1
                   ELSE IF length > 0 /\ IsContainer(type)
                   THEN /\ stack' = Append(
                              SetTop(stack, [Top EXCEPT !.st = "loop",
                                  !.type = type, !.length = length]),
                              Frame(IF type = 10 THEN "compound" ELSE "list",
                                    "start"))
                        /\ currentDepth' = currentDepth + 1
                        /\ offset' = off
                        /\ oob' = (oob \/ lob)
                        /\ UNCHANGED <<ret, pc, result>>
                   ELSE IF sl.err # ""
                   THEN /\ Fail(sl.err, sl.off, lob \/ sl.oob)
                        /\ currentDepth' = currentDepth + 1
                   ELSE /\ stack' = Pop(stack)
                        /\ ret' = Ret("val", 0, <<>>, sl.v)
                        /\ offset' = sl.off
                        /\ oob' = (oob \/ lob \/ sl.oob)
                        /\ UNCHANGED <<currentDepth, pc, result>>

\* readListAsync resumed with the payload of a nested container
ListNext ==
    /\ Running("list", "loop")
    /\ UNCHANGED callers
    /\ ret.k = "val"
    /\ UNCHANGED <<data, offset, progressCallback, totalBytes, pc, result,
                   buffer, oob, lastLen, inflateCalls>>
    /\ LET i      == Top.count
           acc    == Append(Top.acc, Entry(<<>>, ret.val))
           report == i % 500 = 0 /\ i > 0 /\ progressCallback
       IN  /\ progress' = IF report
                          THEN Append(progress, LoopPct(offset, data))
                          ELSE progress
           /\ operationCount' = IF report THEN operationCount + 1
                                ELSE operationCount
           /\ IF i + 1 < Top.length
              THEN /\ stack' = Append(
                         SetTop(stack, [Top EXCEPT !.acc = acc, !.count = i + 1]),
                         Frame(IF Top.type = 10 THEN "compound" ELSE "list",
                               "start"))
                   /\ ret' = NoRet
                   /\ UNCHANGED currentDepth
              ELSE /\ stack' = Pop(stack)
                   /\ ret' = Ret("val", 0, <<>>, BoxVal("arr", acc))
                   /\ currentDepth' = Leave(currentDepth)

\* parse resumed with the root tag: the last notification and the return
Finish ==
    /\ pc = "running"
    /\ UNCHANGED callers
    /\ stack = <<>>
    /\ ret.k \in {"end", "tag"}
    /\ progress' = updateProgress(progress, progressCallback, Pct(100, 1))
    /\ result' = [status |-> "ok", err |-> "", root |-> ret]
    /\ pc' = "returned"
    /\ UNCHANGED <<data, offset, currentDepth, operationCount,
                   progressCallback, totalBytes, stack, ret, buffer, oob,
                   lastLen, inflateCalls>>

\* parseSchematic resumed by parse: an error of parse is thrown on, a root
\* is turned into the summary
Summarise ==
    /\ schematic.status = "pending"
    /\ pc \in {"returned", "failed"}
    /\ schematic' = IF pc = "failed"
                    THEN Rejected(schematic, result.err, <<>>)
                    ELSE Summary(schematic, result.root)
    /\ UNCHANGED <<data, offset, currentDepth, operationCount,
                   progressCallback, totalBytes, progress, stack, ret, pc,
                   result, buffer, oob, lastLen, inflateCalls, inflated,
                   other, calls, instance>>

Next ==
    \/ Parse
    \/ ParseSchematic
    \/ Summarise
    \/ readTagAsync
    \/ TagReturn
    \/ readCompoundAsync
    \/ CompoundNext
    \/ readListAsync
    \/ ListNext
    \/ Finish

Spec == Init /\ [][Next]_vars

-----------------------------------------------------------------------------
(* Calls one after the other.  The page keeps one CreateSchematicParser; a *)
(* test makes a new one for each call.  After a call has finished, the     *)
(* next one starts on the same parser or on a new one.                     *)

\* documents of the calls made in a row: a schematic, a compound cut short
\* inside, an empty buffer, a compressed buffer, a compound whose 50th tag
\* is the only one of its name
ReuseInputs ==
    { EncTag(<<>>, TCompound(Fields(PaletteOf(<<NmBrass>>), BlocksOf(<<0>>)))),
      <<10, 0, 0, 1, 0, 1, 97>>,
      <<>>,
      <<31, 139, 8, 0, 0>>,
      <<10, 0, 0>> \o Members(49) \o <<1, 0, 1, 98, 7, 0>> }

ReuseInflate ==
    { [ok |-> FALSE, out |-> <<>>], [ok |-> TRUE, out |-> <<1, 0, 1, 97, 5>>] }

ParseAgain ==
    /\ pc = "idle"
    /\ UNCHANGED <<schematic, other, calls, instance>>
    /\ \E buf \in ReuseInputs, cb \in BOOLEAN, inf \in ReuseInflate :
          parse(buf, cb, inf)

ParseSchematicAgain ==
    /\ pc = "idle"
    /\ UNCHANGED <<other, calls, instance>>
    /\ \E buf \in ReuseInputs, cb \in BOOLEAN, inf \in ReuseInflate :
          parseSchematic(buf, cb, inf)

\* the call has settled: parse returned or threw, and so did parseSchematic
\* when it was the one called
Over ==
    /\ pc \in {"returned", "failed"}
    /\ schematic.status \in {"none", "ok", "error"}

\* what a finished call was given and what came of it
CallRecord ==
    [entry |-> IF schematic.status = "none" THEN "parse" ELSE "parseSchematic",
     buffer |-> buffer, cb |-> progressCallback, inflated |-> inflated,
     instance |-> instance, result |-> result, offset |-> offset,
     summary |-> [schematic EXCEPT !.cb = FALSE, !.notified = <<>>]]

\* the caller is done with the finished call; it may be kept in `calls`
Forget ==
    /\ Over
    /\ pc' = "idle"
    /\ calls' \in {calls, <<CallRecord>>}
    /\ result' = NoResult
    /\ schematic' = NoSchematic
    /\ progress' = <<>>
    /\ buffer' = <<>>
    /\ inflated' = NotInflated
    /\ oob' = FALSE
    /\ lastLen' = NoLen
    /\ inflateCalls' = 0
    /\ UNCHANGED <<stack, ret, other>>

\* the next call will be made on the parser that served this one
Reuse ==
    /\ Forget
    /\ instance' = "used"
    /\ UNCHANGED <<data, offset, currentDepth, operationCount,
                   progressCallback, totalBytes>>

\* new CreateSchematicParser(): the next call will be made on a new parser
NewInstance ==
    /\ Forget
    /\ instance' = "fresh"
    /\ data' = <<>>
    /\ offset' = 0
    /\ currentDepth' = 0
    /\ operationCount' = 0
    /\ progressCallback' = FALSE
    /\ totalBytes' = 0

ReuseNext ==
    \/ ParseAgain
    \/ ParseSchematicAgain
    \/ Summarise
    \/ readTagAsync
    \/ TagReturn
    \/ readCompoundAsync
    \/ CompoundNext
    \/ readListAsync
    \/ ListNext
    \/ Finish
    \/ Reuse
    \/ NewInstance

ReuseSpec == Init /\ [][ReuseNext]_vars

-----------------------------------------------------------------------------
(* Two files handed to the page one after the other.  SchematicViewer      *)
(* keeps one CreateSchematicParser, which keeps one NBTParser, and         *)
(* processFile does not wait for the call before it.  A call that is       *)
(* running gives way to other tasks only in the setTimeout of              *)
(* yieldControl, taken when operationCount reaches a multiple of           *)
(* yieldThreshold; the one modelled here is that of readTagAsync.          *)

\* the tags before the fields of the large file: with the End tags of
\* their payloads they make more than yieldThreshold calls of yieldControl
Stuffing == 500

\* a schematic whose root holds, before its fields, n more tags: empty
\* compounds of the empty name
Stuffed(fields, n) ==
    LET d == EncTag(<<>>, TCompound(fields))
    IN  SubSeq(d, 1, 3) \o Repeat(<<10, 0, 0, 0>>, n) \o SubSeq(d, 4, Len(d))

\* the summary of such a document
Alone(fields, n) ==
    LET extra == IF n > 0 THEN <<Entry(<<>>, TCompound(<<>>))>> ELSE <<>>
        root  == Ret("tag", 10, <<>>, ValueOf(TCompound(extra \o fields)))
    IN  [Summary([NoSchematic EXCEPT !.status = "pending", !.cb = TRUE], root)
            EXCEPT !.cb = FALSE, !.notified = <<>>]

\* the files: one whose decoding yields, and two small ones
OverlapDocs ==
    { [doc |-> Stuffed(Usual, Stuffing), alone |-> Alone(Usual, Stuffing)],
      [doc |-> Stuffed(Fields(PaletteOf(<<NmCogs>>), BlocksOf(<<0, 0>>)), 0),
       alone |-> Alone(Fields(PaletteOf(<<NmCogs>>), BlocksOf(<<0, 0>>)), 0)],
      [doc |-> Stuffed(Fields(PaletteOf(<<NmRail>>), BlocksOf(<<0>>)), 0),
       alone |-> Alone(Fields(PaletteOf(<<NmRail>>), BlocksOf(<<0>>)), 0)] }

\* what belongs to one call of processFile: the frames of its async
\* functions, its arguments and its pending result
Context ==
    [stack |-> stack, ret |-> ret, pc |-> pc, result |-> result,
     buffer |-> buffer, inflated |-> inflated, schematic |-> schematic]

\* processFile: parseSchematic is called with the bytes of the file and a
\* progress callback
ProcessFile ==
    /\ pc = "idle"
    /\ UNCHANGED <<other, calls, instance>>
    /\ \E od \in OverlapDocs :
          parseSchematic(od.doc, TRUE, [ok |-> FALSE, out |-> <<>>])

\* yieldControl of readTagAsync reaches the threshold: the call is suspended
\* in setTimeout
Yield ==
    /\ Running("tag", "start")
    /\ (operationCount + 1) % yieldThreshold = 0
    /\ operationCount' = operationCount + 1
    /\ stack' = SetTop(stack, [Top EXCEPT !.st = "yield"])
    /\ UNCHANGED <<data, offset, currentDepth, progressCallback, totalBytes,
                   progress, ret, pc, result, buffer, oob, lastLen,
                   inflateCalls>>
    /\ UNCHANGED callers

\* the timer fires: readTagAsync goes on with the fields of the parser as
\* they are now
Resume ==
    /\ Running("tag", "yield")
    /\ UNCHANGED callers
    /\ UNCHANGED operationCount
    /\ ReadTag

\* a second file is chosen while the call for the first is suspended:
\* processFile starts for it, on the same parser
SecondFile ==
    /\ Running("tag", "yield")
    /\ other = NoCall
    /\ other' = Context
    /\ stack' = <<>>
    /\ ret' = NoRet
    /\ pc' = "idle"
    /\ result' = NoResult
    /\ buffer' = <<>>
    /\ inflated' = NotInflated
    /\ schematic' = NoSchematic
    /\ UNCHANGED <<data, offset, currentDepth, operationCount,
                   progressCallback, totalBytes, progress, oob, lastLen,
                   inflateCalls, calls, instance>>

\* the running call has settled or is suspended, and the suspended one is
\* resumed: the frames and results change hands, the parser's fields do not
Switch ==
    /\ other # NoCall
    /\ other.pc = "running"
    /\ \/ Over /\ schematic.status # "none"
       \/ Running("tag", "yield")
    /\ other' = Context
    /\ stack' = other.stack
    /\ ret' = other.ret
    /\ pc' = other.pc
    /\ result' = other.result
    /\ buffer' = other.buffer
    /\ inflated' = other.inflated
    /\ schematic' = other.schematic
    /\ UNCHANGED <<data, offset, currentDepth, operationCount,
                   progressCallback, totalBytes, progress, oob, lastLen,
                   inflateCalls, calls, instance>>

OverlapNext ==
    \/ ProcessFile
    \/ Summarise
    \/ readTagAsync
    \/ TagReturn
    \/ readCompoundAsync
    \/ CompoundNext
    \/ readListAsync
    \/ ListNext
    \/ Finish
    \/ Yield
    \/ Resume
    \/ SecondFile
    \/ Switch

OverlapSpec == Init /\ [][OverlapNext]_vars

-----------------------------------------------------------------------------
(* Outcome of the call *)

Returned == pc = "returned"

Failed == pc = "failed"

FailedWith(kind) == pc = "failed" /\ result.err = kind

TypeOK ==
    /\ pc \in {"idle", "running", "returned", "failed"}
    /\ offset >= 0
    /\ currentDepth >= 0

Done == pc \in {"returned", "failed"}

-----------------------------------------------------------------------------
(* C1 *)

\* each well-formed document with the root tag that decoding should return
\* and the nesting of its containers
WellFormedDocs ==
    { [doc  |-> EncTag(w.name, w.tree),
       root |-> Ret("tag", w.tree.t, w.name, ValueOf(w.tree)),
       depth |-> DepthOf(w.tree)] : w \in WellFormed }

\* C1: parse applied to the reference encoding of a well-formed tree returns
\* a root whose type, name and value equal the tree at every position.
C1_RoundTrip ==
    Done => \A wd \in WellFormedDocs :
                buffer = wd.doc => (Returned /\ result.root = wd.root)

-----------------------------------------------------------------------------
(* C2 *)

\* fewest bytes one payload of a type takes
MinPayload(type) ==
    CASE type \in {1, 10}       -> 1
      [] type \in {2, 8}        -> 2
      [] type \in {3, 5, 7, 11, 12} -> 4
      [] type \in {4, 6}        -> 8
      [] type = 9               -> 5
      [] OTHER                  -> 0

ElemSize(lf) ==
    CASE lf.kind = 7  -> 1
      [] lf.kind = 11 -> 4
      [] lf.kind = 12 -> 8
      [] lf.kind = 9  -> MinPayload(lf.et)
      [] OTHER        -> 0

BytesAfter(lf) == IF lf.off > Len(data) THEN 0 ELSE Len(data) - lf.off

\* the field read last declares more elements than the buffer still holds
\* (and, for a byte array, no more than the ceiling allows); its elements
\* are read in the same step as its length
Overrun ==
    /\ lastLen.kind \in {7, 11, 12} \/ (lastLen.kind = 9 /\ ~IsContainer(lastLen.et))
    /\ ~(lastLen.kind = 7 /\ lastLen.len > ByteArrayCeiling)
    /\ ElemSize(lastLen) > 0
    /\ lastLen.len > BytesAfter(lastLen) \div ElemSize(lastLen)

\* a root TAG_String whose 16-bit length exceeds the bytes after it
StringOverrun ==
    /\ buffer \in StringDocs
    /\ buffer[4] * 256 + buffer[5] > Len(buffer) - 5

\* C2: a length-prefixed field (string, byte array, int array, long array,
\* list) whose declared length needs more bytes than remain makes parse fail
\* with UnexpectedEndOfData, and no index at or beyond the buffer length is
\* read.
C2_LengthOverrun ==
    /\ Overrun => (FailedWith("UnexpectedEndOfData") /\ ~oob)
    /\ (Done /\ StringOverrun) => (FailedWith("UnexpectedEndOfData") /\ ~oob)

-----------------------------------------------------------------------------
(* C3 *)

\* C3: an input nested deeper than maxDepth fails with MaxDepthExceeded; on a
\* well-formed input nested at most maxDepth deep the depth guard never
\* fails.
C3_DepthGuard ==
    Done =>
      /\ \A dd \in DeepDocs :
            buffer = dd.doc =>
              IF dd.depth > maxDepth THEN FailedWith("MaxDepthExceeded")
              ELSE result.err # "MaxDepthExceeded"
      /\ \A wd \in WellFormedDocs :
            (buffer = wd.doc /\ wd.depth <= maxDepth)
              => result.err # "MaxDepthExceeded"

-----------------------------------------------------------------------------
(* C4 *)

\* C4: a negative length of a List, byte array, int array or long array, and
\* a byte-array length above 50 MiB, fail with InvalidLength before any
\* element is read (the cursor stays right after the length field); a byte
\* array is checked for negative, then ceiling, then remaining bytes.
C4_InvalidLength ==
    /\ (lastLen.kind \in {7, 9, 11, 12} /\ lastLen.len < 0)
         => (FailedWith("InvalidLength") /\ offset = lastLen.off)
    /\ (lastLen.kind = 7 /\ lastLen.len > ByteArrayCeiling)
         => (FailedWith("InvalidLength") /\ offset = lastLen.off)
    /\ (lastLen.kind = 7 /\ lastLen.len >= 0 /\ lastLen.len <= ByteArrayCeiling
          /\ lastLen.len > BytesAfter(lastLen))
         => (FailedWith("UnexpectedEndOfData") /\ offset = lastLen.off)

\* a byte array above the ceiling, in a buffer far shorter, was rejected
C4_Witness ==
    /\ FailedWith("InvalidLength")
    /\ lastLen.kind = 7
    /\ lastLen.len > ByteArrayCeiling
    /\ offset = lastLen.off

-----------------------------------------------------------------------------
(* C5 *)

\* C5: readTagAsync reads one type byte; 0 returns the End signal without a
\* name or payload; 1..12 reads a name and then the payload of that type; any
\* other id fails with UnknownTagType.
C5_NamedTag ==
    [][ (Running("tag", "start") /\ offset < Len(data)) =>
          LET id      == data[offset + 1]
              nameEnd == offset + 3 + At(data, offset + 1) * 256
                                    + At(data, offset + 2)
          IN  /\ id = 0 =>
                   /\ ret'.k = "end"
                   /\ offset' = offset + 1
                   /\ pc' = "running"
              /\ id \in 1..12 =>
                   /\ result'.err # "UnknownTagType"
                   /\ offset' >= nameEnd
                   /\ ret'.k = "tag" => ret'.type = id
                   /\ ret'.k = "tag" =>
                        ret'.name = TextDecode(Slice(data, offset + 3, nameEnd))
                   /\ id \in {9, 10} =>
                        /\ Len(stack') = Len(stack) + 1
                        /\ stack'[Len(stack')].f =
                              (IF id = 10 THEN "compound" ELSE "list")
              /\ id \notin 0..12 =>
                   /\ pc' = "failed"
                   /\ result'.err = "UnknownTagType"
                   /\ offset' = nameEnd
      ]_vars

\* a tag with an id outside 0..12 was rejected after its name
C5_Witness == FailedWith("UnknownTagType") /\ offset >= 3 /\ data[1] \notin 0..12

-----------------------------------------------------------------------------
(* C6 *)

\* C6: a List of any element type 1..12 and declared length n decodes to
\* exactly n payloads of that type in buffer order; a List of declared length
\* 0 decodes to the empty sequence and reads no payload, whatever its
\* element-type byte.
C6_ListElements ==
    Done =>
      /\ \A wd \in WellFormedDocs :
            (buffer = wd.doc /\ wd.root.type = 9) =>
              (Returned /\ result.root.val = wd.root.val)
      /\ (buffer \in ListDocs /\ SubSeq(buffer, 5, 8) = <<0, 0, 0, 0>>) =>
              (Returned /\ result.root.val = BoxVal("arr", <<>>) /\ offset = 8)

-----------------------------------------------------------------------------
(* C7 *)

Signed8(u) == IF u >= 128 THEN u - 256 ELSE u

Signed16(u) == IF u >= 32768 THEN u - 65536 ELSE u

Signed32(b0, b1, b2, b3) ==
    IF b0 >= 128
    THEN ((b0 - 128) * 16777216 + b1 * 65536 + b2 * 256 + b3) + MinInt32
    ELSE b0 * 16777216 + b1 * 65536 + b2 * 256 + b3

\* C7: TAG_Byte, TAG_Short and TAG_Int payloads decode to the signed
\* two's-complement value of their 1, 2 and 4 big-endian bytes.
C7_SignedIntegers ==
    Returned =>
      /\ buffer \in ByteDocs =>
           /\ result.root.val.n = Signed8(buffer[4])
           /\ result.root.val.n \in -128..127
      /\ buffer \in ShortDocs =>
           /\ result.root.val.n = Signed16(buffer[4] * 256 + buffer[5])
           /\ result.root.val.n \in -32768..32767
      /\ buffer \in IntDocs =>
           /\ result.root.val.n =
                 Signed32(buffer[4], buffer[5], buffer[6], buffer[7])
           /\ result.root.val.n >= MinInt32

-----------------------------------------------------------------------------
(* C8 *)

\* the signed 64-bit value of bytes i..i+7 of b, in limbs
Signed64(b, i) ==
    <<Signed16(b[i] * 256 + b[i + 1]), b[i + 2] * 256 + b[i + 3],
      b[i + 4] * 256 + b[i + 5], b[i + 6] * 256 + b[i + 7]>>

\* C8: a TAG_Long payload, and every element of a long array, decodes to
\* exactly the signed 64-bit value of its 8 big-endian bytes.
C8_LongExact ==
    Returned =>
      /\ buffer \in LongDocs => result.root.val.s = Signed64(buffer, 4)
      /\ buffer \in LongArrayDocs =>
           /\ Len(result.root.val.c) = 1
           /\ result.root.val.c[1].val.s = Signed64(buffer, 8)

-----------------------------------------------------------------------------
(* C9 *)

KeyDocs ==
    { [doc |-> EncTag(<<>>, KeyTree(ks)),
       map |-> MappingOf(KeyTree(ks).c, <<>>)] : ks \in KeySeqs }

\* C9: the keys of a decoded Compound are the distinct names in order of
\* first appearance, for every name string, each mapped to the value of the
\* last tag read with that name.
C9_OrderedMapping ==
    Returned => \A kd \in KeyDocs :
                    buffer = kd.doc => result.root.val.c = kd.map

-----------------------------------------------------------------------------
(* C10 *)

HasGzipMagic(b) == Len(b) >= 2 /\ b[1] = 31 /\ b[2] = 139

\* C10: a buffer is inflated iff it has at least two bytes and they are
\* 0x1F 0x8B; a buffer without them is decoded unchanged from offset 0; one
\* with them is replaced by the output of inflate exactly once, and the
\* output is not inspected or inflated again.
C10_DecompressionGate ==
    (pc # "idle" /\ buffer # <<>>) =>
      /\ inflateCalls = (IF HasGzipMagic(buffer) THEN 1 ELSE 0)
      /\ ~HasGzipMagic(buffer) => data = buffer
      /\ HasGzipMagic(buffer) =>
           \/ FailedWith("Corrupt") /\ data = buffer
           \/ result.err # "Corrupt" /\ data \in InflateOutputs
      /\ (pc = "running" /\ operationCount = 0) => offset = 0

\* inflate returned bytes that begin with the magic again; they were decoded
\* as they are
C10_Witness ==
    /\ Done
    /\ HasGzipMagic(buffer)
    /\ HasGzipMagic(data)
    /\ data # buffer
    /\ inflateCalls = 1

-----------------------------------------------------------------------------
(* C11 *)

Is100(p) == p.num = 100 * p.den

\* C11: an inflate failure (reported as Corrupt) and every decode-time error
\* make parse fail as a whole: a failed call hands back no tree and never
\* notifies 100%, and a call that returns hands back the finished root.
C11_FailsWhole ==
    /\ (pc # "idle" /\ inflated.called /\ ~inflated.ok) => FailedWith("Corrupt")
    /\ (lastLen.kind \in {7, 9, 11, 12} /\ lastLen.len < 0) => Failed
    /\ (Done /\ ~HasGzipMagic(buffer) /\ Len(buffer) > 0
           /\ buffer[1] \notin 0..12) => Failed
    /\ Failed =>
         /\ result.status = "error"
         /\ result.root = NoRet
         /\ \A i \in 1..Len(progress) : ~Is100(progress[i])
    /\ Returned =>
         /\ result.status = "ok"
         /\ result.root.k \in {"end", "tag"}
         /\ stack = <<>>

\* a decode-time error raised inside a Compound after part of the document
\* was decoded, with a progress callback listening
C11_Witness ==
    /\ FailedWith("UnexpectedEndOfData")
    /\ currentDepth > 0
    /\ offset > 3
    /\ Len(progress) >= 4

-----------------------------------------------------------------------------
(* C12 *)

Summarised == schematic.status = "ok"

Refused(kind) == schematic.status = "error" /\ schematic.err = kind

Settled == schematic.status \in {"ok", "error"}

\* an error record carries no field of a summary
NoSummary ==
    /\ schematic.mods = <<>>
    /\ schematic.blocks = <<>>
    /\ schematic.totalBlocks = Undefined
    /\ schematic.version = Undefined

\* C12: when the first byte of the document is 0x00, parse returns the End
\* signal as the root and parseSchematic fails with InvalidStructure without
\* a summary.
C12_EndRoot ==
    (Len(data) > 0 /\ data[1] = 0) =>
      /\ Done => (Returned /\ result.root.k = "end" /\ offset = 1)
      /\ Settled => (Refused("InvalidStructure") /\ NoSummary)

\* a document that goes on after its End marker was refused
C12_Witness ==
    /\ Refused("InvalidStructure")
    /\ result.root.k = "end"
    /\ Len(data) > 1
    /\ data[1] = 0

-----------------------------------------------------------------------------
(* C13 *)

\* the decoded root is not a Compound, or is a Compound without one of
\* palette, blocks, size
Malformed(root) ==
    \/ root.k # "tag"
    \/ root.type # 10
    \/ \E k \in {PaletteKey, BlocksKey, SizeKey} : ~HasKey(root.val.c, k)

\* C13: when the decoded root is not a Compound, or is a Compound missing
\* palette, blocks or size, parseSchematic fails with InvalidStructure, with
\* no other error, and returns no summary.
C13_InvalidStructure ==
    (Settled /\ Returned /\ Malformed(result.root)) =>
        (Refused("InvalidStructure") /\ NoSummary)

-----------------------------------------------------------------------------
(* C14 *)

\* what the summary of a schematic document of Shapes should hold
Occurrences(sh, name) ==
    Cardinality({ i \in 1..Len(sh.states) :
                    /\ sh.states[i] >= 0
                    /\ sh.states[i] < Len(sh.names)
                    /\ sh.names[sh.states[i] + 1] = name })

Counted(sh) ==
    { [name |-> sh.names[i], count |-> Occurrences(sh, sh.names[i])] :
        i \in { k \in 1..Len(sh.names) : Occurrences(sh, sh.names[k]) > 0 } }

ShapeDocs ==
    { [doc |-> EncTag(<<>>, ShapeTree(sh)), names |-> sh.names,
       states |-> sh.states, railways |-> sh.railways,
       counted |-> Counted(sh)] : sh \in Shapes }

RECURSIVE SumCounts(_)
SumCounts(bs) == IF bs = <<>> THEN 0 ELSE bs[1].count + SumCounts(Tail(bs))

\* C14: blocks of the summary holds the pair (N, c) exactly for the palette
\* names N with c > 0, c being the number of blocks whose state is an
\* in-bounds palette index of an entry named N; no name occurs twice, the
\* counts sum to at most totalBlocks, and totalBlocks is the length of the
\* blocks list.
C14_BlockCounts ==
    Summarised =>
      \A sd \in ShapeDocs :
        buffer = sd.doc =>
          /\ { schematic.blocks[i] : i \in 1..Len(schematic.blocks) } = sd.counted
          /\ \A i, k \in 1..Len(schematic.blocks) :
                schematic.blocks[i].name = schematic.blocks[k].name => i = k
          /\ schematic.totalBlocks = IntVal(Len(sd.states))
          /\ SumCounts(schematic.blocks) <= Len(sd.states)

-----------------------------------------------------------------------------
(* C15 *)

\* positions of the named palette entries outside the base-game namespace
Modded(names) ==
    { i \in 1..Len(names) : Namespace(names[i]) # Minecraft }

Display(names, i) == getModName(Namespace(names[i]))

\* position in the palette where a display name is first resolved
FirstAt(names, d) ==
    CHOOSE i \in Modded(names) :
        /\ Display(names, i) = d
        /\ \A k \in Modded(names) : Display(names, k) = d => i <= k

-----------------------------------------------------------------------------
(* C16 *)

\* p <= q for two percentages; the denominators that occur are 1, 10, the
\* length of the data and ten times that length
LessEq(p, q) ==
    IF p.den = q.den THEN p.num <= q.num
    ELSE IF q.den % p.den = 0 THEN p.num * (q.den \div p.den) <= q.num
    ELSE IF p.den % q.den = 0 THEN p.num <= q.num * (p.den \div q.den)
    ELSE p.num * q.den <= q.num * p.den

\* C16: the percentages the progress callback receives in one call of parse,
\* or of parseSchematic through its wrapped callback, lie in [0, 100] and
\* never decrease, with and without gzip; 100 is at most the last of them.
C16_Progress ==
    /\ \A i \in 1..Len(SinkLog) :
          /\ SinkLog[i].den > 0
          /\ SinkLog[i].num >= 0
          /\ SinkLog[i].num <= 100 * SinkLog[i].den
    /\ \A i \in 1..(Len(SinkLog) - 1) :
          /\ LessEq(SinkLog[i], SinkLog[i + 1])
          /\ ~Is100(SinkLog[i])

\* parseSchematic with a callback on a document whose compound reported
\* progress from its loop: parse notified 0, 5, 15, 30, the loop and 100,
\* all scaled, and parseSchematic went on with 75
C16_Witness ==
    /\ schematic.cb
    /\ Settled
    /\ Len(progress) >= 6
    /\ Len(schematic.notified) >= 1
    /\ Len(SinkLog) = Len(progress) + Len(schematic.notified)

-----------------------------------------------------------------------------
(* Calls in a row: what the callback and the parser's past may change      *)

\* the finished call and the remembered one were the same request
SameRequest ==
    /\ Over
    /\ calls # <<>>
    /\ calls[1].entry = CallRecord.entry
    /\ calls[1].buffer = buffer
    /\ calls[1].inflated = inflated

\* C17: the progress callback and the yields done for it are observable
\* only: two calls given the same bytes, one with a callback and one
\* without, each on a new parser, end with the same outcome (the same tree
\* or the same error, and for parseSchematic the same summary) and the
\* same final offset.
C17_CallbackObservableOnly ==
    (/\ SameRequest
     /\ calls[1].cb # progressCallback
     /\ calls[1].instance = "fresh"
     /\ instance = "fresh")
        => /\ calls[1].result = result
           /\ calls[1].offset = offset
           /\ calls[1].summary = CallRecord.summary

\* a compound of 50 tags was parsed with a callback, which made the loop
\* report and yield, after the same bytes had been parsed without one
C17_Witness ==
    /\ SameRequest
    /\ calls[1].instance = "fresh"
    /\ instance = "fresh"
    /\ ~calls[1].cb
    /\ progressCallback
    /\ pc = "returned"
    /\ Len(data) > 1
    /\ \E i \in 1..Len(progress) : progress[i] = LoopPct(253, data)

\* a call has just been started and nothing has been read yet
Started == pc = "running" /\ stack = <<Frame("tag", "start")>>

\* C18: the outcome of a call depends on the bytes only: every call starts
\* to decode with offset, depth and operation counter at their initial
\* values, and two calls on the same buffer, on a new parser or on one that
\* has served other calls, end with the same tree or error and the same
\* summary.
C18_BytesOnly ==
    /\ Started => (offset = 0 /\ currentDepth = 0 /\ operationCount = 0)
    /\ SameRequest
          => /\ calls[1].result = result
             /\ calls[1].summary = CallRecord.summary

\* a document parsed on a new parser was parsed again, with success, on a
\* parser whose last call had left its cursor inside another buffer
C18_Witness ==
    /\ SameRequest
    /\ calls[1].instance = "fresh"
    /\ instance = "used"
    /\ pc = "returned"
    /\ offset > 3
    /\ calls[1].offset = offset

-----------------------------------------------------------------------------
(* C19 *)

\* C19: calls that overlap in time share no decode state: each call of
\* parseSchematic, also one started while another was suspended and one
\* resumed after another ran, settles with the summary that its own bytes
\* give when they are parsed alone.
C19_NoSharedState ==
    (Over /\ schematic.status # "none")
        => \A od \in OverlapDocs :
               buffer = od.doc
                   => [schematic EXCEPT !.cb = FALSE, !.notified = <<>>]
                          = od.alone

-----------------------------------------------------------------------------
(* C20 *)

\* C20: every call of parse on a finite buffer finishes, and the number of
\* element reads it performs is bounded by the length of the buffer: an
\* array or list that parse returns as the root, each element of which was
\* put there by one element read, holds no more elements than the buffer
\* has bytes.
C20_ReadsBounded ==
    (Returned /\ result.root.k = "tag" /\ result.root.val.j = "arr")
        => Len(result.root.val.c) <= Len(data)

-----------------------------------------------------------------------------
(* C21 *)

\* C21: a fixed-width reader advances the offset by its width or fails with
\* UnexpectedEndOfData when fewer bytes are left, so that in every state of
\* a parse the offset lies between 0 and the length of the data.
C21_OffsetInBounds ==
    (pc # "idle") => (0 <= offset /\ offset <= Len(data))

-----------------------------------------------------------------------------
(* C22 *)

\* C22: the depth counter that Compounds and Lists share never exceeds
\* maxDepth, in any state of a parse, the one in which MaxDepthExceeded is
\* raised included.
C22_DepthBound == currentDepth <= maxDepth

-----------------------------------------------------------------------------
(* C23 *)

\* the Compound and List payloads that are being decoded: entered, not left
Open ==
    Cardinality({ i \in 1..Len(stack) :
                    stack[i].f \in {"compound", "list"} /\ stack[i].st # "start" })

\* C23: the depth counter is balanced: while a parse runs it equals the
\* number of Compound and List payloads being decoded, and it is 0 when the
\* parse has returned.
C23_DepthBalanced ==
    /\ (pc = "running") => (currentDepth = Open)
    /\ Returned => (currentDepth = 0)

\* the second entry of a palette, a Compound inside a List inside the root,
\* is being decoded at depth 3 as the first was
C23_Witness ==
    /\ pc = "running"
    /\ currentDepth = 3
    /\ Len(stack) > 4
    /\ stack[4].f = "list"
    /\ stack[4].count = 1
    /\ stack[5].f = "compound"
    /\ buffer = EncTag(<<>>, TCompound(Usual))

-----------------------------------------------------------------------------
(* C24 *)

\* the tags that the root Compound has stored so far, when the loop of the
\* root Compound is about to read its next tag
RootTags == stack[2].count

AtRootLoop ==
    /\ pc = "running"
    /\ Len(stack) = 3
    /\ stack[2].f = "compound"
    /\ stack[3].f = "tag"
    /\ stack[3].st = "start"

\* C24: the engine enters a suspension point after every 50 tags of a
\* Compound, with or without a progress callback: when the root Compound
\* has stored n tags, yieldControl has been called once for the root tag,
\* at least once for each of the n tags, and once more for every 50 of
\* them.
C24_YieldPoints ==
    AtRootLoop => operationCount >= 1 + RootTags + (RootTags \div 50)

=============================================================================
